---------------------------- MODULE Spec2Model ----------------------------
(***************************************************************************)
(* Model of the deterministic scoring engine of daily_stock_analysis:      *)
(*   - DangFilter            (src/dang_filter.py)                          *)
(*   - BuyPointAnalyzer      (src/buy_point_analyzer.py)                   *)
(*                                                                         *)
(* Conventions.                                                            *)
(*  * Python floats are modelled by exact rational arithmetic.  Percent    *)
(*    and PE inputs of DangFilter are integers in hundredths (4.99 is 499).*)
(*    Prices are rationals [n |-> numerator, d |-> denominator > 0].       *)
(*  * Optional[T] is <<>> for None and <<v>> for a value v.                *)
(*  * Python text is a sequence of Unicode code points, so that substring  *)
(*    containment is computed and not assumed.                             *)
(*  * String results of the code are Chinese literals; the model uses an   *)
(*    ASCII tag for each and names the literal where the tag is defined.   *)
(*  * BuyPointResult (src/buy_point_analyzer.py lines 8-39) declares the    *)
(*    field current_advice without a default after fields with defaults,   *)
(*    which @dataclass rejects with a TypeError when the module is loaded. *)
(*    The model is of the method bodies, as they run once that class       *)
(*    definition is accepted (keyword-only fields).                        *)
(***************************************************************************)
EXTENDS Integers, Sequences, FiniteSets, TLC

VARIABLES
    pc,        \* "call": arguments bound, body not yet run; "done": returned
    dangIn,    \* arguments of DangFilter.analyze
    dangOut,   \* the DangAnalysisResult it returned
    bpIn,      \* arguments of BuyPointAnalyzer.analyze
    bpOut,     \* the Optional[BuyPointResult] it returned
    divIn,     \* arguments of DividendAnalyzer.calculate_expected_yield and the
               \* responses the akshare lookups will give
    divOut,    \* the (expected_yield, reason) it returned, with the calls made
    heap,      \* the list objects of a session of scorer calls, by address
    session,   \* the calls of that session, in order, with what each returned
    config,    \* get_config(): keys, base URL and retry settings
    env,       \* what the google.generativeai and openai libraries will do
    analyzer,  \* the fields of the GeminiAnalyzer instance
    call,      \* the locals of the running analyze / _call_api_with_retry
    batch      \* batch_analyze: the contexts, the position and the results

scorerVars == <<dangIn, dangOut, bpIn, bpOut, divIn, divOut>>
sessionVars == <<heap, session>>
llmVars == <<config, env, analyzer, call, batch>>

vars == <<pc, dangIn, dangOut, bpIn, bpOut, divIn, divOut, heap, session,
          config, env, analyzer, call, batch>>

(***************************************************************************)
(* Optional values                                                         *)
(***************************************************************************)
None == <<>>
Some(v) == <<v>>
IsNone(o) == o = <<>>
Val(o) == o[1]

Max2(a, b) == IF a >= b THEN a ELSE b
Min2(a, b) == IF a <= b THEN a ELSE b

(***************************************************************************)
(* Exact rationals for Python floats: [n |-> numerator, d |-> denominator], *)
(* d > 0, in lowest terms.                                                  *)
(***************************************************************************)
Abs(i) == IF i < 0 THEN -i ELSE i

RECURSIVE GCD(_, _)
GCD(a, b) == IF b = 0 THEN a ELSE GCD(b, a % b)

Rat(n, d) ==
    LET s == IF d < 0 THEN -1 ELSE 1
        g == GCD(Abs(n), Abs(d))
    IN  [n |-> (s * n) \div g, d |-> (s * d) \div g]

RI(i) == [n |-> i, d |-> 1]
RAdd(a, b) == Rat(a.n * b.d + b.n * a.d, a.d * b.d)
RSub(a, b) == Rat(a.n * b.d - b.n * a.d, a.d * b.d)
RMul(a, b) == Rat(a.n * b.n, a.d * b.d)
\* b is not zero where the code divides
RDiv(a, b) == Rat(a.n * b.d, a.d * b.n)
RAbs(a) == [n |-> Abs(a.n), d |-> a.d]
RLt(a, b) == a.n * b.d < b.n * a.d
RLe(a, b) == a.n * b.d <= b.n * a.d
RGt(a, b) == RLt(b, a)
RGe(a, b) == RLe(b, a)
RPos(a) == a.n > 0

\* Python's round(x, 2): the nearest multiple of 0.01, a tie going to the even one
\* The value rounded is the exact one: where the exact value is a tie, the binary
\* float of the code may lie a unit in the last place to either side of it.
Round2(a) ==
    LET num == a.n * 100
        q   == num \div a.d
        r2  == 2 * (num % a.d)
        k   == IF r2 > a.d THEN q + 1
               ELSE IF r2 < a.d THEN q
               ELSE IF q % 2 = 0 THEN q ELSE q + 1
    IN  Rat(k, 100)

(***************************************************************************)
(* src/dang_filter.py : configuration                                      *)
(***************************************************************************)
\* "银行", "国有大型银行", "股份制银行", "城商行", "农商行", "有色金属", "铜", "铝",
\* "锌", "锡", "黄金", "稀土", "煤炭", "煤炭开采", "石油", "石油开采", "矿产",
\* "铁矿", "锂矿", "电力", "水电", "火电", "核电", "高速公路", "港口", "机场"
PREFERRED_INDUSTRIES ==
    << <<38134, 34892>>,
       <<22269, 26377, 22823, 22411, 38134, 34892>>,
       <<32929, 20221, 21046, 38134, 34892>>,
       <<22478, 21830, 34892>>,
       <<20892, 21830, 34892>>,
       <<26377, 33394, 37329, 23646>>,
       <<38108>>,
       <<38109>>,
       <<38156>>,
       <<38177>>,
       <<40644, 37329>>,
       <<31232, 22303>>,
       <<29028, 28845>>,
       <<29028, 28845, 24320, 37319>>,
       <<30707, 27833>>,
       <<30707, 27833, 24320, 37319>>,
       <<30719, 20135>>,
       <<38081, 30719>>,
       <<38146, 30719>>,
       <<30005, 21147>>,
       <<27700, 30005>>,
       <<28779, 30005>>,
       <<26680, 30005>>,
       <<39640, 36895, 20844, 36335>>,
       <<28207, 21475>>,
       <<26426, 22330>> >>

\* "光伏", "光伏设备", "光伏电池", "组件", "电池", "锂电池", "动力电池", "储能电池",
\* "电动车", "新能源车", "新能源汽车", "整车", "影视", "电影", "传媒", "游戏",
\* "手游", "房地产", "地产", "房地产开发", "物业", "光伏组件", "电池组件"
BLACKLIST_INDUSTRIES ==
    << <<20809, 20239>>,
       <<20809, 20239, 35774, 22791>>,
       <<20809, 20239, 30005, 27744>>,
       <<32452, 20214>>,
       <<30005, 27744>>,
       <<38146, 30005, 27744>>,
       <<21160, 21147, 30005, 27744>>,
       <<20648, 33021, 30005, 27744>>,
       <<30005, 21160, 36710>>,
       <<26032, 33021, 28304, 36710>>,
       <<26032, 33021, 28304, 27773, 36710>>,
       <<25972, 36710>>,
       <<24433, 35270>>,
       <<30005, 24433>>,
       <<20256, 23186>>,
       <<28216, 25103>>,
       <<25163, 28216>>,
       <<25151, 22320, 20135>>,
       <<22320, 20135>>,
       <<25151, 22320, 20135, 24320, 21457>>,
       <<29289, 19994>>,
       <<20809, 20239, 32452, 20214>>,
       <<30005, 27744, 32452, 20214>> >>

\* "证券", "保险", "医药", "生物医药", "白酒", "半导体", "芯片"
CAUTION_INDUSTRIES ==
    << <<35777, 21048>>,
       <<20445, 38505>>,
       <<21307, 33647>>,
       <<29983, 29289, 21307, 33647>>,
       <<30333, 37202>>,
       <<21322, 23548, 20307>>,
       <<33455, 29255>> >>

\* "银行"
banking_keyword == <<38134, 34892>>

\* "有色", "煤炭", "钢铁", "石油", "化工", "矿", "水泥", "航运"
cyclical_keywords ==
    << <<26377, 33394>>,
       <<29028, 28845>>,
       <<38050, 38081>>,
       <<30707, 27833>>,
       <<21270, 24037>>,
       <<30719>>,
       <<27700, 27877>>,
       <<33322, 36816>> >>

\* "科技", "软件", "互联网", "半导体", "芯片", "AI", "人工智能", "云计算"
tech_keywords ==
    << <<31185, 25216>>,
       <<36719, 20214>>,
       <<20114, 32852, 32593>>,
       <<21322, 23548, 20307>>,
       <<33455, 29255>>,
       <<65, 73>>,
       <<20154, 24037, 26234, 33021>>,
       <<20113, 35745, 31639>> >>

\* "白酒", "食品", "饮料", "家电", "服装", "零售", "消费"
consumer_keywords ==
    << <<30333, 37202>>,
       <<39135, 21697>>,
       <<39278, 26009>>,
       <<23478, 30005>>,
       <<26381, 35013>>,
       <<38646, 21806>>,
       <<28040, 36153>> >>

\* PE_THRESHOLDS, in hundredths
PE_THRESHOLDS ==
    [ CYCLICAL |-> [ideal |-> 1000, acceptable |-> 1500, warning |-> 2000, danger |-> 3000],
      BANKING  |-> [ideal |-> 400,  acceptable |-> 600,  warning |-> 800,  danger |-> 1200],
      TECH     |-> [ideal |-> 2000, acceptable |-> 4000, warning |-> 10000, danger |-> 30000],
      CONSUMER |-> [ideal |-> 1500, acceptable |-> 2500, warning |-> 3500, danger |-> 5000],
      DEFAULT  |-> [ideal |-> 1200, acceptable |-> 2000, warning |-> 3000, danger |-> 5000] ]

\* DIVIDEND_CONFIG, in hundredths of a percent
DIVIDEND_CONFIG == [excellent |-> 500, good |-> 300, acceptable |-> 100, poor |-> 0]

\* in hundredths of a percent
PROFIT_TAKE_THRESHOLD == 3000
PROFIT_TAKE_EXTREME == 5000
REBUY_DROP_THRESHOLD == 1000
REBUY_DROP_IDEAL == 1500

RISK_PENALTIES ==
    [ profit_take_warning |-> -10,
      shareholder_selling |-> -5,
      blacklist_industry  |-> -5,
      pe_too_high         |-> -5,
      no_dividend         |-> -3 ]

(***************************************************************************)
(* src/dang_filter.py : DangFilter                                         *)
(***************************************************************************)
\* Python's `kw in text` on str
Contains(kw, text) ==
    \E i \in 1..(Len(text) - Len(kw) + 1) : SubSeq(text, i, i + Len(kw) - 1) = kw

\* `for kw in list: if kw in text: return ...` reaches its return
AnyIn(list, text) == \E k \in 1..Len(list) : Contains(list[k], text)

classify_industry_preferred_first(industry) ==
    IF industry = <<>> THEN "NORMAL"
    ELSE IF AnyIn(PREFERRED_INDUSTRIES, industry) THEN "PREFERRED"
    ELSE IF AnyIn(BLACKLIST_INDUSTRIES, industry) THEN "BLACKLIST"
    ELSE IF AnyIn(CAUTION_INDUSTRIES, industry) THEN "CAUTION"
    ELSE "NORMAL"

\* IndustryTier: PREFERRED "优选行业", NORMAL "普通行业", CAUTION "谨慎行业",
\* BLACKLIST "黑名单行业"
classify_industry(industry) ==
    IF industry = <<>> THEN "NORMAL"
    ELSE IF AnyIn(BLACKLIST_INDUSTRIES, industry) THEN "BLACKLIST"
    ELSE IF AnyIn(PREFERRED_INDUSTRIES, industry) THEN "PREFERRED"
    ELSE IF AnyIn(CAUTION_INDUSTRIES, industry) THEN "CAUTION"
    ELSE "NORMAL"

\* StockType: CYCLICAL "周期股", BANKING "银行股", TECH "科技股", CONSUMER "消费股",
\* DEFAULT "其他"
classify_stock_type(industry) ==
    IF industry = <<>> THEN "DEFAULT"
    ELSE IF Contains(banking_keyword, industry) THEN "BANKING"
    ELSE IF AnyIn(cyclical_keywords, industry) THEN "CYCLICAL"
    ELSE IF AnyIn(tech_keywords, industry) THEN "TECH"
    ELSE IF AnyIn(consumer_keywords, industry) THEN "CONSUMER"
    ELSE "DEFAULT"

\* status: unknown "未知", ideal "理想", acceptable "可接受", warning "警告",
\* danger "危险"
evaluate_pe_exclusive_bounds(pe, stock_type) ==
    IF IsNone(pe) \/ Val(pe) <= 0 THEN [status |-> "unknown", score |-> 10]
    ELSE LET thresholds == PE_THRESHOLDS[stock_type] IN
         IF Val(pe) < thresholds.ideal THEN [status |-> "ideal", score |-> 25]
         ELSE IF Val(pe) < thresholds.acceptable THEN [status |-> "acceptable", score |-> 20]
         ELSE IF Val(pe) < thresholds.warning THEN [status |-> "warning", score |-> 10]
         ELSE [status |-> "danger", score |-> 0]

evaluate_pe(pe, stock_type) ==
    IF IsNone(pe) \/ Val(pe) <= 0 THEN [status |-> "unknown", score |-> 10]
    ELSE LET thresholds == PE_THRESHOLDS[stock_type] IN
         IF Val(pe) <= thresholds.ideal THEN [status |-> "ideal", score |-> 25]
         ELSE IF Val(pe) <= thresholds.acceptable THEN [status |-> "acceptable", score |-> 20]
         ELSE IF Val(pe) <= thresholds.warning THEN [status |-> "warning", score |-> 10]
         ELSE [status |-> "danger", score |-> 0]

evaluate_dividend_exclusive_bounds(dividend_yield) ==
    IF IsNone(dividend_yield) THEN [status |-> "unknown", score |-> 5]
    ELSE IF Val(dividend_yield) > DIVIDEND_CONFIG.excellent
         THEN [status |-> "excellent", score |-> 20]
    ELSE IF Val(dividend_yield) > DIVIDEND_CONFIG.good
         THEN [status |-> "good", score |-> 15]
    ELSE IF Val(dividend_yield) > DIVIDEND_CONFIG.acceptable
         THEN [status |-> "acceptable", score |-> 8]
    ELSE [status |-> "poor", score |-> 0]

\* status: unknown "未知", excellent "优秀", good "良好", acceptable "可接受",
\* poor "差"
evaluate_dividend(dividend_yield) ==
    IF IsNone(dividend_yield) THEN [status |-> "unknown", score |-> 5]
    ELSE IF Val(dividend_yield) >= DIVIDEND_CONFIG.excellent
         THEN [status |-> "excellent", score |-> 20]
    ELSE IF Val(dividend_yield) >= DIVIDEND_CONFIG.good
         THEN [status |-> "good", score |-> 15]
    ELSE IF Val(dividend_yield) >= DIVIDEND_CONFIG.acceptable
         THEN [status |-> "acceptable", score |-> 8]
    ELSE [status |-> "poor", score |-> 0]

\* the comment is the tag of the templated text; "" is the empty text
check_profit_take(price_change_pct) ==
    IF IsNone(price_change_pct) THEN [alert |-> FALSE, comment |-> ""]
    ELSE IF Val(price_change_pct) >= PROFIT_TAKE_EXTREME
         THEN [alert |-> TRUE, comment |-> "profit_take_50"]
    ELSE IF Val(price_change_pct) >= PROFIT_TAKE_THRESHOLD
         THEN [alert |-> TRUE, comment |-> "profit_take_30"]
    ELSE [alert |-> FALSE, comment |-> ""]

check_rebuy_opportunity(price_drop_pct) ==
    IF IsNone(price_drop_pct) THEN [rebuy |-> FALSE, comment |-> ""]
    ELSE IF Val(price_drop_pct) >= REBUY_DROP_IDEAL
         THEN [rebuy |-> TRUE, comment |-> "rebuy_ideal"]
    ELSE IF Val(price_drop_pct) >= REBUY_DROP_THRESHOLD
         THEN [rebuy |-> TRUE, comment |-> "rebuy_small"]
    ELSE [rebuy |-> FALSE, comment |-> "rebuy_wait"]

\* the dict of step 7 of analyze
industry_score(tier) ==
    CASE tier = "PREFERRED" -> 15
      [] tier = "NORMAL"    -> 10
      [] tier = "CAUTION"   -> 5
      [] tier = "BLACKLIST" -> 0
      [] OTHER              -> 10

\* the sum stored without the clamp
ClampScoreUnclamped(raw) == raw

\* result.fundamental_score = max(0, min(60, result.fundamental_score))
ClampScore(raw) == Max2(0, Min2(60, raw))

\* a penalty for each profit-take line reached, instead of one for the alert
RiskStepsPerLine(tier, pe_status, dividend_status, profit, shareholder_selling) ==
    LET lines == IF profit.comment = "profit_take_50" THEN 2
                 ELSE IF profit.comment = "profit_take_30" THEN 1 ELSE 0
    IN  [ penalty |-> lines * RISK_PENALTIES.profit_take_warning
                      + (IF shareholder_selling THEN RISK_PENALTIES.shareholder_selling ELSE 0)
                      + (IF tier = "BLACKLIST" THEN RISK_PENALTIES.blacklist_industry ELSE 0)
                      + (IF pe_status = "danger" THEN RISK_PENALTIES.pe_too_high ELSE 0)
                      + (IF dividend_status = "poor" THEN RISK_PENALTIES.no_dividend ELSE 0),
          items |-> <<>> ]

\* risk_penalty and risk_items as steps 4 and 6 of analyze leave them
RiskSteps(tier, pe_status, dividend_status, profit, shareholder_selling) ==
    LET s0 == [penalty |-> 0,
               items |-> IF profit.comment # "" THEN <<profit.comment>> ELSE <<>>]
        s1 == IF profit.alert
              THEN [s0 EXCEPT !.penalty = @ + RISK_PENALTIES.profit_take_warning]
              ELSE s0
        s2 == IF shareholder_selling
              THEN [penalty |-> s1.penalty + RISK_PENALTIES.shareholder_selling,
                    items |-> Append(s1.items, "shareholder_selling")]
              ELSE s1
        s3 == IF tier = "BLACKLIST"
              THEN [penalty |-> s2.penalty + RISK_PENALTIES.blacklist_industry,
                    items |-> Append(s2.items, "industry_comment")]
              ELSE s2
        s4 == IF pe_status = "danger"
              THEN [penalty |-> s3.penalty + RISK_PENALTIES.pe_too_high,
                    items |-> Append(s3.items, "pe_comment")]
              ELSE s3
        s5 == IF dividend_status = "poor"
              THEN [s4 EXCEPT !.penalty = @ + RISK_PENALTIES.no_dividend]
              ELSE s4
    IN  s5

\* DangFilter.analyze; the free-text comments are left out of the result
DangAnalyze(a) ==
    LET tier     == classify_industry(a.industry)
        stype    == classify_stock_type(a.industry)
        pe       == evaluate_pe(a.pe, stype)
        dividend == evaluate_dividend(a.dividend_yield)
        profit   == check_profit_take(a.price_change_pct)
        rebuy    == check_rebuy_opportunity(a.price_from_high_pct)
        risk     == RiskSteps(tier, pe.status, dividend.status, profit,
                              a.shareholder_selling)
        raw      == pe.score + dividend.score + industry_score(tier) + risk.penalty
    IN  [ industry_tier     |-> tier,
          stock_type        |-> stype,
          pe_status         |-> pe.status,
          pe_score          |-> pe.score,
          dividend_status   |-> dividend.status,
          dividend_score    |-> dividend.score,
          profit_take_alert |-> profit.alert,
          rebuy_opportunity |-> rebuy.rebuy,
          risk_items        |-> risk.items,
          risk_penalty      |-> risk.penalty,
          raw_score         |-> raw,   \* fundamental_score before the clamp
          fundamental_score |-> ClampScore(raw) ]

(***************************************************************************)
(* pandas.DataFrame of daily bars, most recent last.  A frame is a         *)
(* sequence of runs [len, close, high, low]: len consecutive bars with the *)
(* same close, high and low.  The indicator columns (ma5, ma10, ma20,      *)
(* ma120, volume_ratio) are read on the last row only and are kept in the  *)
(* arguments next to the frame.                                            *)
(***************************************************************************)
RECURSIVE DfLen(_)
DfLen(df) == IF df = <<>> THEN 0 ELSE df[Len(df)].len + DfLen(SubSeq(df, 1, Len(df) - 1))

\* df.tail(k)
RECURSIVE DfTail(_, _)
DfTail(df, k) ==
    IF k <= 0 \/ df = <<>> THEN <<>>
    ELSE LET last == df[Len(df)] IN
         IF last.len >= k THEN << [last EXCEPT !.len = k] >>
         ELSE DfTail(SubSeq(df, 1, Len(df) - 1), k - last.len) \o <<last>>

\* df['high'].max(), df['low'].min(), df['close'].sum() of a non-empty frame
RECURSIVE HighMax(_)
HighMax(df) ==
    IF Len(df) = 1 THEN df[1].high
    ELSE Max2(df[Len(df)].high, HighMax(SubSeq(df, 1, Len(df) - 1)))

RECURSIVE LowMin(_)
LowMin(df) ==
    IF Len(df) = 1 THEN df[1].low
    ELSE Min2(df[Len(df)].low, LowMin(SubSeq(df, 1, Len(df) - 1)))

RECURSIVE CloseSum(_)
CloseSum(df) ==
    IF df = <<>> THEN 0
    ELSE df[Len(df)].len * df[Len(df)].close + CloseSum(SubSeq(df, 1, Len(df) - 1))

\* df['close'].mean()
CloseMean(df) == Rat(CloseSum(df), DfLen(df))

\* float(latest.get(key, default)) of a column that may be absent
GetOr(column, default) == IF IsNone(column) THEN default ELSE Val(column)

(***************************************************************************)
(* src/buy_point_analyzer.py : BuyPointAnalyzer                            *)
(***************************************************************************)
\* short_signal: pullback_low_volume "缩量回踩", breakout_high_volume "放量突破",
\* rising_high_volume "放量上行", breakdown "破位", overextended "乖离过大",
\* none "无信号".  detail is the tag of short_signal_detail without its numbers:
\* near_ma10_bullish "回踩MA10, 均线多头", near_ma5 "回踩MA5", recent_high
\* "突破近期高点", above_ma "均线上方", below_ma20 "跌破MA20支撑", bias_ma5
\* "MA5乖离..., 追高风险", wait "等待明确信号".
AnalyzeShortSignalBreakdownFirst(price, ma5, ma10, ma20, volume_ratio, df) ==
    LET bias_ma5  == IF RPos(ma5) THEN RMul(RDiv(RSub(price, ma5), ma5), RI(100)) ELSE RI(0)
        bias_ma10 == IF RPos(ma10) THEN RMul(RDiv(RSub(price, ma10), ma10), RI(100)) ELSE RI(0)
        is_bullish == IF ma5.n # 0 /\ ma10.n # 0 /\ ma20.n # 0
                      THEN RGt(ma5, ma10) /\ RGt(ma10, ma20) ELSE FALSE
        recent_high == IF DfLen(df) >= 20 THEN HighMax(DfTail(df, 20)) ELSE HighMax(df)
    IN  IF RPos(ma20) /\ RLt(price, RMul(ma20, Rat(98, 100)))
        THEN [signal |-> "breakdown", detail |-> "below_ma20"]
        ELSE IF RLt(volume_ratio, Rat(8, 10)) /\ RLt(RAbs(bias_ma10), RI(3)) /\ is_bullish
        THEN [signal |-> "pullback_low_volume", detail |-> "near_ma10_bullish"]
        ELSE IF RLt(volume_ratio, Rat(8, 10)) /\ RLt(RAbs(bias_ma5), RI(2))
        THEN [signal |-> "pullback_low_volume", detail |-> "near_ma5"]
        ELSE IF RGt(volume_ratio, Rat(15, 10)) /\ RGt(bias_ma5, RI(0)) /\ RLt(bias_ma5, RI(5))
        THEN IF RGe(price, RMul(RI(recent_high), Rat(98, 100)))
             THEN [signal |-> "breakout_high_volume", detail |-> "recent_high"]
             ELSE [signal |-> "rising_high_volume", detail |-> "above_ma"]
        ELSE IF RGt(bias_ma5, RI(5)) \/ RGt(bias_ma10, RI(8))
        THEN [signal |-> "overextended", detail |-> "bias_ma5"]
        ELSE [signal |-> "none", detail |-> "wait"]

AnalyzeShortSignal(price, ma5, ma10, ma20, volume_ratio, df) ==
    LET bias_ma5  == IF RPos(ma5) THEN RMul(RDiv(RSub(price, ma5), ma5), RI(100)) ELSE RI(0)
        bias_ma10 == IF RPos(ma10) THEN RMul(RDiv(RSub(price, ma10), ma10), RI(100)) ELSE RI(0)
        is_bullish == IF ma5.n # 0 /\ ma10.n # 0 /\ ma20.n # 0
                      THEN RGt(ma5, ma10) /\ RGt(ma10, ma20) ELSE FALSE
        recent_high == IF DfLen(df) >= 20 THEN HighMax(DfTail(df, 20)) ELSE HighMax(df)
    IN  IF RLt(volume_ratio, Rat(8, 10)) /\ RLt(RAbs(bias_ma10), RI(3)) /\ is_bullish
        THEN [signal |-> "pullback_low_volume", detail |-> "near_ma10_bullish"]
        ELSE IF RLt(volume_ratio, Rat(8, 10)) /\ RLt(RAbs(bias_ma5), RI(2))
        THEN [signal |-> "pullback_low_volume", detail |-> "near_ma5"]
        ELSE IF RGt(volume_ratio, Rat(15, 10)) /\ RGt(bias_ma5, RI(0)) /\ RLt(bias_ma5, RI(5))
        THEN IF RGe(price, RMul(RI(recent_high), Rat(98, 100)))
             THEN [signal |-> "breakout_high_volume", detail |-> "recent_high"]
             ELSE [signal |-> "rising_high_volume", detail |-> "above_ma"]
        ELSE IF RPos(ma20) /\ RLt(price, RMul(ma20, Rat(98, 100)))
        THEN [signal |-> "breakdown", detail |-> "below_ma20"]
        ELSE IF RGt(bias_ma5, RI(5)) \/ RGt(bias_ma10, RI(8))
        THEN [signal |-> "overextended", detail |-> "bias_ma5"]
        ELSE [signal |-> "none", detail |-> "wait"]

\* label: RED "🔴", YELLOW "🟡", STAR "⭐", GREEN "🟢"; label_text: avoid "规避",
\* watch "观望", best "最佳买点", good "良好买点", watch_value_zone "观望(价值区)".
\* ma120_status: below "价格小于MA120", near "价格≈MA120", above "价格大于MA120"
DetermineLabel(short_signal, ma120_status, ma120_deviation) ==
    IF short_signal = "breakdown" THEN [label |-> "RED", label_text |-> "avoid"]
    ELSE IF short_signal = "overextended" THEN [label |-> "YELLOW", label_text |-> "watch"]
    ELSE IF short_signal \in {"pullback_low_volume", "breakout_high_volume"}
    THEN IF ma120_status = "below" THEN [label |-> "STAR", label_text |-> "best"]
         ELSE IF ma120_status = "near" THEN [label |-> "GREEN", label_text |-> "good"]
         ELSE [label |-> "GREEN", label_text |-> "good"]
    ELSE IF ma120_status = "below" /\ RLt(ma120_deviation, RI(-5))
    THEN [label |-> "YELLOW", label_text |-> "watch_value_zone"]
    ELSE [label |-> "YELLOW", label_text |-> "watch"]

\* add_price_desc: [kind |-> "none"] is "", [kind |-> "ma", name] is "{name}支撑",
\* [kind |-> "fib", ratio, mas] is "黄金分割{ratio}支撑" when mas is empty and
\* "黄金分割{ratio} + {mas}共振" otherwise; ratio is in thousandths.
NoSupport == [add_price |-> None, add_price_desc |-> [kind |-> "none"]]

\* the Fibonacci ratios of fib_levels, in thousandths and in dict order
FibRatios == <<382, 500, 618>>

\* abs(a - b) / b < 0.015
Within15(a, b) == RLt(RDiv(RAbs(RSub(a, b)), b), Rat(15, 1000))

FirstMin(supports) ==
    LET i == CHOOSE i \in 1..Len(supports) :
                 /\ \A j \in 1..Len(supports) : RGe(supports[j].price, supports[i].price)
                 /\ \A j \in 1..(i - 1) : RGt(supports[j].price, supports[i].price)
    IN  supports[i]

\* max(candidates, key=price) and the head of the stable descending sort: the
\* first element of the list whose price no other element exceeds
FirstMax(supports) ==
    LET i == CHOOSE i \in 1..Len(supports) :
                 /\ \A j \in 1..Len(supports) : RLe(supports[j].price, supports[i].price)
                 /\ \A j \in 1..(i - 1) : RLt(supports[j].price, supports[i].price)
    IN  supports[i]

\* step 2: one candidate for each Fibonacci level below the current price
RECURSIVE FibSupports(_, _, _, _, _)
FibSupports(k, recent_high, price_range, current_price, ma_dict) ==
    IF k > Len(FibRatios) THEN <<>>
    ELSE LET fib_price == RSub(RI(recent_high), RMul(RI(price_range), Rat(FibRatios[k], 1000)))
             rest == FibSupports(k + 1, recent_high, price_range, current_price, ma_dict)
             matched_mas == SelectSeq(ma_dict, LAMBDA m : Within15(m.val, fib_price))
         IN  IF RGe(fib_price, current_price) THEN rest
             ELSE << [price |-> fib_price,
                      desc |-> [kind |-> "fib", ratio |-> FibRatios[k],
                                mas |-> [i \in 1..Len(matched_mas) |-> matched_mas[i].name]]] >>
                  \o rest

\* step 3: the moving averages below the current price, each unless it lies
\* within 1.5% of a candidate already in the list
RECURSIVE AddMaSupports(_, _, _, _)
AddMaSupports(k, supports, current_price, ma_dict) ==
    IF k > Len(ma_dict) THEN supports
    ELSE LET m == ma_dict[k]
             is_duplicate == \E i \in 1..Len(supports) :
                                 Within15(supports[i].price, m.val)
         IN  IF RPos(m.val) /\ RLt(m.val, current_price) /\ ~is_duplicate
             THEN AddMaSupports(k + 1,
                      Append(supports, [price |-> m.val,
                                        desc |-> [kind |-> "ma", name |-> m.name]]),
                      current_price, ma_dict)
             ELSE AddMaSupports(k + 1, supports, current_price, ma_dict)

\* the 60-bar branch up to the filter: the candidates below current_price * 0.995
ValidSupports(df, current_price, ma_dict) ==
    LET recent_high == HighMax(DfTail(df, 60))
        recent_low  == LowMin(DfTail(df, 60))
        price_range == recent_high - recent_low
        resonance_supports ==
            AddMaSupports(1, FibSupports(1, recent_high, price_range, current_price, ma_dict),
                          current_price, ma_dict)
    IN  SelectSeq(resonance_supports,
                  LAMBDA s : RLt(s.price, RMul(current_price, Rat(995, 1000))))

SupportByMaAnyPositive(current_price, ma_dict) ==
    LET candidates == SelectSeq(ma_dict, LAMBDA m : RPos(m.val))
        priced == [i \in 1..Len(candidates) |->
                      [price |-> candidates[i].val,
                       desc |-> [kind |-> "ma", name |-> candidates[i].name]]]
    IN  IF candidates = <<>> THEN NoSupport
        ELSE LET best == FirstMax(priced)
             IN  [add_price |-> Some(Round2(best.price)), add_price_desc |-> best.desc]

\* the branch for fewer than 60 bars: moving averages only
SupportByMa(current_price, ma_dict) ==
    LET candidates ==
            SelectSeq(ma_dict, LAMBDA m : RPos(m.val) /\ RLt(m.val, current_price))
        priced == [i \in 1..Len(candidates) |->
                      [price |-> candidates[i].val,
                       desc |-> [kind |-> "ma", name |-> candidates[i].name]]]
    IN  IF candidates = <<>> THEN NoSupport
        ELSE LET best == FirstMax(priced)
             IN  [add_price |-> Some(Round2(best.price)), add_price_desc |-> best.desc]

CalculateSupportPrice(df, current_price, ma_dict) ==
    IF DfLen(df) < 60 THEN SupportByMa(current_price, ma_dict)
    ELSE LET valid_supports == ValidSupports(df, current_price, ma_dict)
         IN  IF valid_supports = <<>> THEN NoSupport
             ELSE LET best_support == FirstMax(valid_supports)
                  IN  [add_price |-> Some(Round2(best_support.price)),
                       add_price_desc |-> best_support.desc]

CalculateTakeProfitFromThreePercent(df, current_price) ==
    IF DfLen(df) < 20 THEN None
    ELSE LET recent_high == HighMax(DfTail(df, 60))
         IN  IF RGe(RI(recent_high), RMul(current_price, Rat(103, 100)))
             THEN Some(Round2(RI(recent_high)))
             ELSE None

CalculateTakeProfit(df, current_price) ==
    IF DfLen(df) < 20 THEN None
    ELSE LET recent_high == HighMax(DfTail(df, 60))
         IN  IF RGt(RI(recent_high), RMul(current_price, Rat(103, 100)))
             THEN Some(Round2(RI(recent_high)))
             ELSE None

\* the advice template and, for the two templates that print it, the add_price
\* that is formatted into the text (None prints as "None")
GenerateAdvice(label, short_signal, ma120_status, current_price, add_price) ==
    IF label = "STAR"
    THEN IF short_signal = "pullback_low_volume"
         THEN [template |-> "best_pullback", mentions |-> Some(add_price)]
         ELSE [template |-> "best_other", mentions |-> None]
    ELSE IF label = "GREEN"
    THEN IF short_signal = "pullback_low_volume"
         THEN [template |-> "good_pullback", mentions |-> Some(add_price)]
         ELSE [template |-> "good_other", mentions |-> None]
    ELSE IF label = "RED" THEN [template |-> "avoid", mentions |-> None]
    ELSE IF ma120_status = "below"
         THEN [template |-> "value_zone", mentions |-> None]
         ELSE [template |-> "no_signal", mentions |-> None]

\* ma120 after `if ma120 <= 0 and len(df) >= 20: ...`
ResolveMa120AllCloses(stored, df) ==
    IF stored.n <= 0 /\ DfLen(df) >= 20 THEN CloseMean(df) ELSE stored

ResolveMa120(stored, df) ==
    IF stored.n <= 0 /\ DfLen(df) >= 20
    THEN IF DfLen(df) >= 120 THEN CloseMean(DfTail(df, 120)) ELSE CloseMean(df)
    ELSE stored

\* BuyPointAnalyzer.analyze.  Prices of the arguments are integers and
\* volume_ratio is in hundredths.
BuyPointAnalyze(a) ==
    IF a.df = <<>> \/ DfLen(a.df) < 5 THEN None
    ELSE
    LET latest_close  == a.df[Len(a.df)].close
        current_price == IF ~IsNone(a.quote) /\ Val(a.quote) > 0
                         THEN RI(Val(a.quote)) ELSE RI(latest_close)
        ma5   == RI(GetOr(a.ma5, 0))
        ma10  == RI(GetOr(a.ma10, 0))
        ma20  == RI(GetOr(a.ma20, 0))
        volume_ratio == Rat(GetOr(a.volume_ratio, 100), 100)
        ma120 == ResolveMa120(RI(GetOr(a.ma120, 0)), a.df)
    IN  IF ma120.n <= 0 THEN None
        ELSE
        LET ma120_deviation == RMul(RDiv(RSub(current_price, ma120), ma120), RI(100))
            ma120_status == IF RLt(ma120_deviation, RI(-3)) THEN "below"
                            ELSE IF RLe(ma120_deviation, RI(3)) THEN "near"
                            ELSE "above"
            short == AnalyzeShortSignal(current_price, ma5, ma10, ma20, volume_ratio, a.df)
            lab == DetermineLabel(short.signal, ma120_status, ma120_deviation)
            ma_dict == << [name |-> "MA5", val |-> ma5], [name |-> "MA10", val |-> ma10],
                          [name |-> "MA20", val |-> ma20], [name |-> "MA120", val |-> ma120] >>
            support == CalculateSupportPrice(a.df, current_price, ma_dict)
            take_profit_price == CalculateTakeProfit(a.df, current_price)
            stop_loss_price == IF RPos(ma20) THEN Some(Round2(RMul(ma20, Rat(98, 100))))
                               ELSE None
            current_advice == GenerateAdvice(lab.label, short.signal, ma120_status,
                                             current_price, support.add_price)
        IN  Some([ label             |-> lab.label,
                   label_text        |-> lab.label_text,
                   short_signal      |-> short.signal,
                   short_signal_detail |-> short.detail,
                   ma120_status      |-> ma120_status,
                   ma120_deviation   |-> Round2(ma120_deviation),
                   add_price         |-> support.add_price,
                   add_price_desc    |-> support.add_price_desc,
                   take_profit_price |-> take_profit_price,
                   stop_loss_price   |-> stop_loss_price,
                   current_advice    |-> current_advice,
                   current_price     |-> Round2(current_price),
                   ma5               |-> Round2(ma5),
                   ma10              |-> Round2(ma10),
                   ma20              |-> Round2(ma20),
                   ma120             |-> Round2(ma120),
                   volume_ratio      |-> Round2(volume_ratio) ])

(***************************************************************************)
(* src/dividend_analyzer.py : DividendAnalyzer                             *)
(*                                                                         *)
(* The akshare lookups are the environment: a call carries the response    *)
(* each lookup will give, which is either an exception or a table.  The    *)
(* dividend history is a sequence of rows [year, annual, cell]: the period *)
(* '<year>年报' or '<year>中报' of column 报告期 and the cell of column       *)
(* 股利支付率, which is NaN, a float, or a text of code points.               *)
(***************************************************************************)
\* '煤炭', '有色', '钢铁', '石油', '化工', '海运'
dividend_cyclical_keywords ==
    << <<29028, 28845>>, <<26377, 33394>>, <<38050, 38081>>, <<30707, 27833>>,
       <<21270, 24037>>, <<28023, 36816>> >>

\* '科技', '软件', '半导体', '电子'
dividend_tech_keywords ==
    << <<31185, 25216>>, <<36719, 20214>>, <<21322, 23548, 20307>>, <<30005, 23376>> >>

\* '电力', '水务', '燃气', '高速'
dividend_utility_keywords ==
    << <<30005, 21147>>, <<27700, 21153>>, <<29123, 27668>>, <<39640, 36895>> >>

\* '%', '-', '.'
PercentSign == 37
MinusSign == 45
DecimalPoint == 46

IsDigit(c) == 48 <= c /\ c <= 57

\* the value of a text of digits read as a whole number; 0 for the empty text
RECURSIVE DigitsValue(_)
DigitsValue(t) ==
    IF t = <<>> THEN 0 ELSE 10 * DigitsValue(SubSeq(t, 1, Len(t) - 1)) + (t[Len(t)] - 48)

RECURSIVE PowerOfTen(_)
PowerOfTen(k) == IF k = 0 THEN 1 ELSE 10 * PowerOfTen(k - 1)

\* val.strip('%'): the text without its leading and trailing '%'
RECURSIVE StripPercent(_)
StripPercent(t) ==
    IF t = <<>> THEN t
    ELSE IF t[1] = PercentSign THEN StripPercent(Tail(t))
    ELSE IF t[Len(t)] = PercentSign THEN StripPercent(SubSeq(t, 1, Len(t) - 1))
    ELSE t

\* float(text) for decimal texts [-]digits[.digits]: None where float raises
\* ValueError
ParseFloat(t) ==
    LET negative == t # <<>> /\ t[1] = MinusSign
        body == IF negative THEN Tail(t) ELSE t
        dots == { i \in 1..Len(body) : body[i] = DecimalPoint }
        whole == IF dots = {} THEN body
                 ELSE SubSeq(body, 1, (CHOOSE i \in dots : TRUE) - 1)
        frac == IF dots = {} THEN <<>>
                ELSE SubSeq(body, (CHOOSE i \in dots : TRUE) + 1, Len(body))
        well_formed == /\ Cardinality(dots) <= 1
                       /\ Len(whole) + Len(frac) > 0
                       /\ \A i \in 1..Len(whole) : IsDigit(whole[i])
                       /\ \A i \in 1..Len(frac) : IsDigit(frac[i])
    IN  IF ~well_formed THEN None
        ELSE LET magnitude == Rat(DigitsValue(whole) * PowerOfTen(Len(frac)) + DigitsValue(frac),
                                  PowerOfTen(Len(frac)))
             IN  Some(IF negative THEN RSub(RI(0), magnitude) ELSE magnitude)

\* cells of column 股利支付率
NaNCell == [kind |-> "nan", text |-> <<>>]
FloatCell == [kind |-> "float", text |-> <<>>]
TextCell(t) == [kind |-> "str", text |-> t]

\* one pass of the loop over recent['股利支付率']: the payout appended to
\* payouts, or None when the cell is skipped
CellPayout(val) ==
    IF val.kind = "nan" \/ val = TextCell(<<MinusSign, MinusSign>>) THEN None
    ELSE IF val.kind = "float" THEN None
    ELSE LET parsed == ParseFloat(StripPercent(val.text)) IN
         IF IsNone(parsed) THEN None
         ELSE LET payout == RDiv(Val(parsed), RI(100)) IN
              IF RPos(payout) /\ RLt(payout, RI(2)) THEN Some(payout) ELSE None

\* annual_df.sort_values(by='报告期', ascending=False): rows of distinct years
RECURSIVE SortByPeriodDescending(_)
SortByPeriodDescending(rows) ==
    IF rows = <<>> THEN <<>>
    ELSE LET i == CHOOSE i \in 1..Len(rows) : \A j \in 1..Len(rows) : rows[j].year <= rows[i].year
         IN  <<rows[i]>> \o SortByPeriodDescending(
                                SubSeq(rows, 1, i - 1) \o SubSeq(rows, i + 1, Len(rows)))

RECURSIVE RSum(_)
RSum(rs) == IF rs = <<>> THEN RI(0) ELSE RAdd(rs[1], RSum(Tail(rs)))

calculate_avg_payout_ratio(df, years) ==
    IF df = <<>> THEN RI(0)
    ELSE LET annual_df == SortByPeriodDescending(SelectSeq(df, LAMBDA row : row.annual))
             recent == SubSeq(annual_df, 1, Min2(years, Len(annual_df)))
             kept == SelectSeq(recent, LAMBDA row : ~IsNone(CellPayout(row.cell)))
             payouts == [i \in 1..Len(kept) |-> Val(CellPayout(kept[i].cell))]
         IN  IF payouts = <<>> THEN RI(0)
             ELSE RDiv(RSum(payouts), RI(Len(payouts)))

\* the response of ak.stock_individual_info_em is an exception, or a table
\* whose 行业 row is absent (industry None) or holds a text
get_stock_type(info) ==
    IF info.raises THEN "default"
    ELSE IF IsNone(info.industry) THEN "default"
    ELSE LET industry == Val(info.industry) IN
         IF Contains(banking_keyword, industry) THEN "bank"
         ELSE IF AnyIn(dividend_cyclical_keywords, industry) THEN "cyclical"
         ELSE IF AnyIn(dividend_tech_keywords, industry) THEN "tech"
         ELSE IF AnyIn(dividend_utility_keywords, industry) THEN "utility"
         ELSE "default"

\* the response of ak.stock_fhps_detail_ths is an exception or a table
get_dividend_history_propagating(fhps) ==
    IF fhps.raises THEN [raised |-> TRUE, df |-> <<>>] ELSE [raised |-> FALSE, df |-> fhps.rows]

\* `except Exception: return pd.DataFrame()`: the exception becomes the empty
\* DataFrame
get_dividend_history(fhps) ==
    [raised |-> FALSE, df |-> IF fhps.raises THEN <<>> ELSE fhps.rows]

\* the guard of calculate_expected_yield
InvalidPriceOrPeIgnoringPrice(current_price, pe_dynamic) ==
    IsNone(pe_dynamic) \/ Val(pe_dynamic) <= 0

InvalidPriceOrPe(current_price, pe_dynamic) ==
    current_price <= 0 \/ (IsNone(pe_dynamic) \/ Val(pe_dynamic) <= 0)

\* step 2: the base payout ratio and where it comes from
BasePayout(stock_type, df) ==
    IF df = <<>>
    THEN [base_payout |-> IF stock_type \in {"bank", "utility"} THEN Rat(30, 100) ELSE RI(0),
          reason_payout |-> "default"]
    ELSE [base_payout |-> calculate_avg_payout_ratio(df, 3), reason_payout |-> "average"]

\* step 3: the correction by type; correction_log names the corrections made
FinalPayoutWithoutFloor(stock_type, base_payout) ==
    [final_payout |-> base_payout, correction_log |-> <<>>]

FinalPayout(stock_type, base_payout) ==
    IF stock_type = "bank" /\ RLt(base_payout, Rat(30, 100))
    THEN [final_payout |-> Rat(30, 100), correction_log |-> <<"bank_floor">>]
    ELSE [final_payout |-> base_payout, correction_log |-> <<>>]

\* DividendAnalyzer.calculate_expected_yield.  current_price and pe_dynamic are
\* whole numbers; stock_type is None, Some("") or Some(type).  calls lists the
\* collaborators called, in order.  reason "invalid" is "价格或PE数据无效";
\* reason "trace" is "预测EPS {eps_forecast} (基于PE动{pe_dynamic}) x 派息率
\* {final_payout} ({reason_payout}{correction_log})" with reason_payout
\* "default" for "无历史数据(默认)" and "average" for "三年平均{base_payout}",
\* and correction "bank_floor" for "银行修正(底线30%)".
CalculateExpectedYield(a) ==
    IF InvalidPriceOrPe(a.current_price, a.pe_dynamic)
    THEN [raised |-> FALSE, expected_yield |-> RI(0), reason |-> [kind |-> "invalid"],
          calls |-> <<>>]
    ELSE LET lookup == IsNone(a.stock_type) \/ Val(a.stock_type) = ""
             stock_type == IF lookup THEN get_stock_type(a.info) ELSE Val(a.stock_type)
             calls == (IF lookup THEN <<"get_stock_type">> ELSE <<>>)
                          \o <<"get_dividend_history">>
             current_price == RI(a.current_price)
             pe_dynamic == RI(Val(a.pe_dynamic))
             eps_forecast == RDiv(current_price, pe_dynamic)
             history == get_dividend_history(a.fhps)
         IN  IF history.raised
             THEN [raised |-> TRUE, expected_yield |-> RI(0), reason |-> [kind |-> "none"],
                   calls |-> calls]
             ELSE IF a.current_price = 0
             \* `expected_dividend / current_price`: ZeroDivisionError
             THEN [raised |-> TRUE, expected_yield |-> RI(0), reason |-> [kind |-> "none"],
                   calls |-> calls]
             ELSE LET base == BasePayout(stock_type, history.df)
                      final == FinalPayout(stock_type, base.base_payout)
                      expected_dividend == RMul(eps_forecast, final.final_payout)
                      expected_yield == RMul(RDiv(expected_dividend, current_price), RI(100))
                  IN  [raised |-> FALSE,
                       expected_yield |-> expected_yield,
                       reason |-> [kind |-> "trace",
                                   eps_forecast |-> eps_forecast,
                                   pe_dynamic |-> pe_dynamic,
                                   final_payout |-> final.final_payout,
                                   reason_payout |-> base.reason_payout,
                                   base_payout |-> base.base_payout,
                                   correction_log |-> final.correction_log],
                       calls |-> calls]

(***************************************************************************)
(* src/analyzer.py : GeminiAnalyzer                                        *)
(*                                                                         *)
(* get_config() is the record config and the two client libraries are the  *)
(* environment env: whether google.generativeai can be configured, whether *)
(* the primary and the fallback GenerativeModel can be built, and whether  *)
(* the OpenAI client can be imported and built.  A request to either API   *)
(* answers with a response or raises; the text of an exception is a        *)
(* sequence of code points, as the rate-limit test searches it.  None and  *)
(* '' are both <<>> for the keys and the base URL, which the code only     *)
(* tests for truth.                                                        *)
(***************************************************************************)
\* 'your_', 'http', '429', 'quota', 'rate'
placeholder_prefix == <<121, 111, 117, 114, 95>>
http_prefix == <<104, 116, 116, 112>>
text_429 == <<52, 50, 57>>
text_quota == <<113, 117, 111, 116, 97>>
text_rate == <<114, 97, 116, 101>>

\* text.startswith(prefix)
StartsWith(text, prefix) ==
    Len(text) >= Len(prefix) /\ SubSeq(text, 1, Len(prefix)) = prefix

\* text.lower(), on the letters A-Z
Lower(text) == [k \in 1..Len(text) |->
                   IF text[k] >= 65 /\ text[k] <= 90 THEN text[k] + 32 ELSE text[k]]

\* key and not key.startswith('your_') and len(key) > 10
KeyValid(key) ==
    key # <<>> /\ ~StartsWith(key, placeholder_prefix) /\ Len(key) > 10

\* the fields __init__ assigns before it initialises a model
NewAnalyzer(api_key) ==
    [ api_key            |-> api_key,
      model              |-> "None",      \* "None", "primary" or "fallback"
      current_model_name |-> "None",
      using_fallback     |-> FALSE,
      use_openai         |-> FALSE,
      openai_client      |-> None ]

\* the client is stored and _use_openai is left as it was
InitOpenaiFallbackClientOnly(self, cfg, e) ==
    IF ~KeyValid(cfg.openai_api_key) \/ e.openai # "ok" THEN self
    ELSE [self EXCEPT !.openai_client = Some([api_key |-> cfg.openai_api_key,
                                              base_url |-> cfg.openai_base_url])]

\* GeminiAnalyzer._init_openai_fallback; the client keeps its keyword arguments
InitOpenaiFallback(self, cfg, e) ==
    IF ~KeyValid(cfg.openai_api_key) THEN self
    ELSE IF e.openai = "import_error" THEN self
    ELSE IF e.openai = "client_error" THEN self
    ELSE LET base_url == IF cfg.openai_base_url # <<>>
                            /\ StartsWith(cfg.openai_base_url, http_prefix)
                         THEN cfg.openai_base_url ELSE <<>>
         IN  [self EXCEPT !.openai_client = Some([api_key |-> cfg.openai_api_key,
                                                  base_url |-> base_url]),
                          !.current_model_name = "openai_model",
                          !.use_openai = TRUE]

\* GeminiAnalyzer._init_model: every exception is caught inside
InitModel(self, e) ==
    IF ~e.genai THEN [raised |-> FALSE, self |-> [self EXCEPT !.model = "None"]]
    ELSE IF e.primary
    THEN [raised |-> FALSE,
          self |-> [self EXCEPT !.model = "primary",
                                !.current_model_name = "gemini_model",
                                !.using_fallback = FALSE]]
    ELSE IF e.fallback
    THEN [raised |-> FALSE,
          self |-> [self EXCEPT !.model = "fallback",
                                !.current_model_name = "gemini_model_fallback",
                                !.using_fallback = TRUE]]
    ELSE [raised |-> FALSE, self |-> [self EXCEPT !.model = "None"]]

\* GeminiAnalyzer.__init__
GeminiAnalyzerInit(api_key, cfg, e) ==
    LET key   == IF api_key # <<>> THEN api_key ELSE cfg.gemini_api_key
        self0 == NewAnalyzer(key)
    IN  IF KeyValid(key)
        THEN LET made == InitModel(self0, e)
             IN  IF made.raised THEN InitOpenaiFallback(made.self, cfg, e)
                 ELSE made.self
        ELSE InitOpenaiFallback(self0, cfg, e)

\* GeminiAnalyzer._switch_to_fallback_model
SwitchToFallbackModel(self, e) ==
    IF e.genai /\ e.fallback
    THEN [ok |-> TRUE,
          self |-> [self EXCEPT !.model = "fallback",
                                !.current_model_name = "gemini_model_fallback",
                                !.using_fallback = TRUE]]
    ELSE [ok |-> FALSE, self |-> self]

is_available(self) == self.model # "None" \/ ~IsNone(self.openai_client)

\* '429' in error_str or 'quota' in error_str.lower() or 'rate' in error_str.lower()
IsRateLimit(error_str) ==
    \/ Contains(text_429, error_str)
    \/ Contains(text_quota, Lower(error_str))
    \/ Contains(text_rate, Lower(error_str))

RECURSIVE PowerOfTwo(_)
PowerOfTwo(k) == IF k <= 0 THEN 1 ELSE 2 * PowerOfTwo(k - 1)

\* the delay without its cap
RetryDelayUncapped(base_delay, attempt) == base_delay * PowerOfTwo(attempt - 1)

\* delay = base_delay * (2 ** (attempt - 1)); delay = min(delay, 60)
RetryDelay(base_delay, attempt) == Min2(base_delay * PowerOfTwo(attempt - 1), 60)

\* "Gemini 返回空响应", "OpenAI API 返回空响应"
GeminiEmptyResponse ==
    <<71, 101, 109, 105, 110, 105, 32, 36820, 22238, 31354, 21709, 24212>>
OpenaiEmptyResponse ==
    <<79, 112, 101, 110, 65, 73, 32, 65, 80, 73, 32, 36820, 22238, 31354, 21709, 24212>>
\* "'NoneType' object has no attribute 'generate_content'"
NoneTypeHasNoGenerateContent ==
    <<39, 78, 111, 110, 101, 84, 121, 112, 101, 39, 32, 111, 98, 106, 101, 99, 116,
      32, 104, 97, 115, 32, 110, 111, 32, 97, 116, 116, 114, 105, 98, 117, 116, 101,
      32, 39, 103, 101, 110, 101, 114, 97, 116, 101, 95, 99, 111, 110, 116, 101,
      110, 116, 39>>
\* "OpenAI API 调用失败，已达最大重试次数"
OpenaiRetriesExhausted ==
    <<79, 112, 101, 110, 65, 73, 32, 65, 80, 73, 32, 35843, 29992, 22833, 36133,
      65292, 24050, 36798, 26368, 22823, 37325, 35797, 27425, 25968>>
\* "所有 AI API 调用失败，已达最大重试次数"
AllApisFailed ==
    <<25152, 26377, 32, 65, 73, 32, 65, 80, 73, 32, 35843, 29992, 22833, 36133,
      65292, 24050, 36798, 26368, 22823, 37325, 35797, 27425, 25968>>
\* "Gemini API Key 未配置"
GeminiKeyNotConfigured ==
    <<71, 101, 109, 105, 110, 105, 32, 65, 80, 73, 32, 75, 101, 121, 32, 26410,
      37197, 32622>>
\* "invalid literal for int()"
InvalidLiteralForInt ==
    <<105, 110, 118, 97, 108, 105, 100, 32, 108, 105, 116, 101, 114, 97, 108, 32,
      102, 111, 114, 32, 105, 110, 116, 40, 41>>

\* `last_error or other`: an exception object is true, None is not
OrError(last_error, other) == IF IsNone(last_error) THEN other ELSE Val(last_error)

\* the locals of _call_api_with_retry and of the _call_openai_api it runs,
\* with counts of what the call has done so far
NewCall(self, code, name) ==
    [ code                |-> code,
      name                |-> name,
      phase               |-> "gemini",   \* "gemini", "exhausted", "openai",
                                          \* "returned" or "raised"
      attempt             |-> 0,
      tried_fallback      |-> self.using_fallback,
      last_error          |-> None,
      fell_through        |-> FALSE,      \* _call_openai_api runs after Gemini
      response            |-> None,       \* the text returned
      error               |-> None,       \* the exception raised
      entered_with_openai |-> self.use_openai,
      gemini_requests     |-> 0,
      openai_requests     |-> 0,
      switches            |-> 0,          \* successful switches to the fallback
      requests_after_switch |-> 0,        \* Gemini requests after such a switch
      gemini_after_openai |-> FALSE,
      max_delay           |-> 0 ]

Raise(c, message) == [c EXCEPT !.phase = "raised", !.error = Some(message)]

\* entry of _call_openai_api: with no attempt to make, the loop is skipped and
\* the final raise is reached; after Gemini it is re-raised as
\* `last_error or openai_error`
EnterOpenai(c, cfg, fell_through) ==
    LET c1 == [c EXCEPT !.fell_through = fell_through, !.attempt = 0]
    IN  IF cfg.gemini_max_retries <= 0
        THEN Raise(c1, IF fell_through
                       THEN OrError(c1.last_error, OpenaiRetriesExhausted)
                       ELSE OpenaiRetriesExhausted)
        ELSE [c1 EXCEPT !.phase = "openai"]

\* _call_api_with_retry up to the first pass of its loop
CallApiWithRetryEnter(self, cfg, code, name) ==
    LET c == NewCall(self, code, name)
    IN  IF self.use_openai THEN EnterOpenai(c, cfg, FALSE)
        ELSE IF cfg.gemini_max_retries <= 0 THEN [c EXCEPT !.phase = "exhausted"]
        ELSE c

\* one pass of the loop of _call_api_with_retry; without a model the request
\* is an AttributeError and none is sent
GeminiAttempt(self, c, cfg, e, outcome) ==
    LET delay    == IF c.attempt > 0
                    THEN RetryDelay(cfg.gemini_retry_delay, c.attempt) ELSE 0
        sent     == self.model # "None"
        c1       == [c EXCEPT !.max_delay = Max2(@, delay),
                              !.gemini_requests = IF sent THEN @ + 1 ELSE @,
                              !.requests_after_switch =
                                  IF sent /\ c.switches > 0 THEN @ + 1 ELSE @,
                              !.gemini_after_openai = @ \/ (sent /\ c.openai_requests > 0)]
        answered == sent /\ ~outcome.raises /\ outcome.response.kind # "empty"
        error_str == IF ~sent THEN NoneTypeHasNoGenerateContent
                     ELSE IF outcome.raises THEN outcome.message
                     ELSE GeminiEmptyResponse
        switching == /\ IsRateLimit(error_str)
                     /\ c.attempt >= cfg.gemini_max_retries \div 2
                     /\ ~c.tried_fallback
        switched == SwitchToFallbackModel(self, e)
        next     == c.attempt + 1
    IN  IF answered
        THEN [self |-> self,
              call |-> [c1 EXCEPT !.phase = "returned",
                                  !.response = Some(outcome.response)]]
        ELSE [self |-> IF switching THEN switched.self ELSE self,
              call |-> [c1 EXCEPT
                          !.last_error = Some(error_str),
                          !.tried_fallback = @ \/ (switching /\ switched.ok),
                          !.switches = IF switching /\ switched.ok THEN @ + 1 ELSE @,
                          !.attempt = next,
                          !.phase = IF next >= cfg.gemini_max_retries
                                    THEN "exhausted" ELSE "gemini"]]

\* _call_api_with_retry after its loop
AfterGemini(self, c, cfg, e) ==
    IF ~IsNone(self.openai_client)
    THEN [self |-> self, call |-> EnterOpenai(c, cfg, TRUE)]
    ELSE IF cfg.openai_api_key # <<>> /\ cfg.openai_base_url # <<>>
    THEN LET self1 == InitOpenaiFallback(self, cfg, e)
         IN  IF ~IsNone(self1.openai_client)
             THEN [self |-> self1, call |-> EnterOpenai(c, cfg, TRUE)]
             ELSE [self |-> self1, call |-> Raise(c, OrError(c.last_error, AllApisFailed))]
    ELSE [self |-> self, call |-> Raise(c, OrError(c.last_error, AllApisFailed))]

\* one pass of the loop of _call_openai_api
OpenaiAttempt(c, cfg, outcome) ==
    LET delay    == IF c.attempt > 0
                    THEN RetryDelay(cfg.gemini_retry_delay, c.attempt) ELSE 0
        c1       == [c EXCEPT !.max_delay = Max2(@, delay),
                              !.openai_requests = @ + 1]
        answered == ~outcome.raises /\ outcome.response.kind # "empty"
        error_str == IF outcome.raises THEN outcome.message ELSE OpenaiEmptyResponse
    IN  IF answered
        THEN [c1 EXCEPT !.phase = "returned", !.response = Some(outcome.response)]
        ELSE IF c.attempt = cfg.gemini_max_retries - 1
        THEN Raise(c1, IF c.fell_through THEN OrError(c.last_error, error_str)
                       ELSE error_str)
        ELSE [c1 EXCEPT !.attempt = @ + 1]

\* AnalysisResult: the fields the callers test, and how the response was read
AnalysisResult(code, name, sentiment_score, success, error_message, parsed) ==
    [ code |-> code, name |-> name, sentiment_score |-> sentiment_score,
      success |-> success, error_message |-> error_message, parsed |-> parsed ]

\* GeminiAnalyzer._parse_text_response: counts of positive and negative keywords
ParseTextResponse(response, code, name, parsed) ==
    LET sentiment_score ==
            IF response.positive > response.negative + 1 THEN 65
            ELSE IF response.negative > response.positive + 1 THEN 35
            ELSE 50
    IN  AnalysisResult(code, name, sentiment_score, TRUE, None, parsed)

\* GeminiAnalyzer._parse_response: only json.JSONDecodeError is caught
ParseResponse(response, code, name) ==
    IF response.kind = "no_json"
    THEN [raised |-> None, result |-> ParseTextResponse(response, code, name, "no_json")]
    ELSE IF response.kind = "malformed_json"
    THEN [raised |-> None,
          result |-> ParseTextResponse(response, code, name, "json_decode_error")]
    ELSE IF response.kind = "json_bad_score"
    THEN [raised |-> Some(InvalidLiteralForInt),
          result |-> AnalysisResult(code, name, 50, FALSE, None, "field_error")]
    ELSE [raised |-> None,
          result |-> AnalysisResult(code, name, response.score, TRUE, None, "json")]

\* the result analyze returns from its `except Exception as e`
FailureResult(code, name, message, parsed) ==
    AnalysisResult(code, name, 50, FALSE, Some(message), parsed)

\* analyze from the return or the raise of _call_api_with_retry to its own return
AnalyzeFinish(c) ==
    IF c.phase = "raised"
    THEN FailureResult(c.code, c.name, Val(c.error), "call_failed")
    ELSE LET parsed == ParseResponse(Val(c.response), c.code, c.name)
         IN  IF ~IsNone(parsed.raised)
             THEN FailureResult(c.code, c.name, Val(parsed.raised), "field_error")
             ELSE parsed.result

\* "股票"
stock_prefix == <<32929, 31080>>

\* the name analyze resolves before its try block, as the place it came from;
\* context['realtime'].get raises AttributeError when the value is None
ResolveName(context) ==
    IF ~IsNone(context.stock_name) /\ Val(context.stock_name) # <<>>
       /\ ~StartsWith(Val(context.stock_name), stock_prefix)
    THEN [raised |-> FALSE, name |-> "stock_name"]
    ELSE IF context.realtime = "absent"
    THEN [raised |-> FALSE, name |-> "STOCK_NAME_MAP"]
    ELSE IF context.realtime = "None" THEN [raised |-> TRUE, name |-> ""]
    ELSE IF context.realtime = "named" THEN [raised |-> FALSE, name |-> "realtime"]
    ELSE [raised |-> FALSE, name |-> "STOCK_NAME_MAP"]

(***************************************************************************)
(* Inputs of DangFilter.analyze                                            *)
(***************************************************************************)
\* an industry text is the concatenation of at most MaxFragments fragments
MaxFragments == 2

\* "银行", "光伏", "证券", "软件", "纺织"
Fragments ==
    { <<38134, 34892>>, <<20809, 20239>>, <<35777, 21048>>, <<36719, 20214>>,
      <<32442, 32455>> }

RECURSIVE TextsUpTo(_)
TextsUpTo(k) ==
    IF k = 0 THEN { <<>> }
    ELSE LET T == TextsUpTo(k - 1) IN T \cup { t \o f : t \in T, f \in Fragments }

IndustryTexts == TextsUpTo(MaxFragments)

\* hundredths; PE 0 and negative, 4, 4.01, 12, 12.01, 20, 50, 50.01, 300.01
PeInputs == { None, Some(-500), Some(0), Some(400), Some(401), Some(1200),
              Some(1201), Some(2000), Some(5000), Some(5001), Some(30001) }
DividendInputs == { None, Some(0), Some(99), Some(100), Some(300), Some(499), Some(500) }
PriceChangeInputs == { None, Some(-1000), Some(2999), Some(3000), Some(5000) }
PriceFromHighInputs == { None, Some(500), Some(1500) }

DangArgs ==
    [ industry : IndustryTexts,
      pe : PeInputs,
      dividend_yield : DividendInputs,
      price_change_pct : PriceChangeInputs,
      price_from_high_pct : PriceFromHighInputs,
      shareholder_selling : BOOLEAN ]

Idle == [idle |-> TRUE]

\* the variables of the scorer sessions and of GeminiAnalyzer, when unused
NoSession == heap = <<>> /\ session = <<>>
NoLlm == config = Idle /\ env = Idle /\ analyzer = Idle /\ call = Idle /\ batch = Idle

InitDang ==
    /\ pc = "call"
    /\ NoSession
    /\ NoLlm
    /\ dangIn \in DangArgs
    /\ dangOut = None
    /\ bpIn = Idle
    /\ bpOut = None
    /\ divIn = Idle
    /\ divOut = None

DangFilter_analyze ==
    /\ pc = "call"
    /\ dangIn # Idle
    /\ dangOut' = Some(DangAnalyze(dangIn))
    /\ pc' = "done"
    /\ UNCHANGED <<dangIn, bpIn, bpOut, divIn, divOut, sessionVars, llmVars>>

NextDang == DangFilter_analyze

SpecDang == InitDang /\ [][NextDang]_vars

(***************************************************************************)
(* Inputs of BuyPointAnalyzer.analyze                                      *)
(***************************************************************************)
Run(len, close, high, low) == [len |-> len, close |-> close, high |-> high, low |-> low]

\* all frames of 1..k runs drawn from a set of runs
RECURSIVE FramesUpTo(_, _)
FramesUpTo(runs, k) ==
    IF k = 0 THEN {}
    ELSE LET F == FramesUpTo(runs, k - 1)
         IN  { <<r>> : r \in runs } \cup F \cup { f \o <<r>> : f \in F, r \in runs }

BuyPoint_analyze ==
    /\ pc = "call"
    /\ bpIn # Idle
    /\ bpOut' = BuyPointAnalyze(bpIn)
    /\ pc' = "done"
    /\ UNCHANGED <<dangIn, dangOut, bpIn, divIn, divOut, sessionVars, llmVars>>

\* -- short-term signal and label: prices around 100, every rule's thresholds --
\* 30 bars below a 20-bar high of 101 or 110; an older high of 120 outside the
\* 20-bar window; 10 bars (fewer than 20) with a high of 120
SignalFrames ==
    { << Run(30, 100, 101, 95) >>,
      << Run(30, 100, 110, 95) >>,
      << Run(5, 100, 120, 90), Run(25, 100, 101, 95) >>,
      << Run(5, 100, 120, 90), Run(5, 100, 101, 95) >> }
SignalMa == { None, Some(0), Some(92), Some(96), Some(99), Some(100), Some(103) }
SignalVolumeRatio == { None, Some(50), Some(80), Some(100), Some(150), Some(160) }
SignalMa120 == { None, Some(90), Some(104), Some(110) }
SignalQuote == { None, Some(97) }

SignalArgs ==
    [ df : SignalFrames, quote : SignalQuote, ma5 : SignalMa, ma10 : SignalMa,
      ma20 : SignalMa, ma120 : SignalMa120, volume_ratio : SignalVolumeRatio ]

InitSignal ==
    /\ pc = "call"
    /\ NoSession
    /\ NoLlm
    /\ bpIn \in SignalArgs
    /\ bpOut = None
    /\ dangIn = Idle
    /\ dangOut = None
    /\ divIn = Idle
    /\ divOut = None

NextSignal == BuyPoint_analyze

SpecSignal == InitSignal /\ [][NextSignal]_vars

\* -- length of the series and MA120 resolution --
\* a frame is at most MaxRuns runs
MaxRuns == 2

SeriesRuns ==
    { Run(len, close, close + 2, close - 2) :
          len \in {1, 4, 15, 19, 60, 101}, close \in {90, 110} }
SeriesFrames == { <<>> } \cup FramesUpTo(SeriesRuns, MaxRuns)

SeriesArgs ==
    [ df : SeriesFrames, quote : { None, Some(0), Some(105) },
      ma5 : { None, Some(100) }, ma10 : { Some(100) }, ma20 : { Some(100) },
      ma120 : { None, Some(0), Some(100) }, volume_ratio : { None, Some(100) } ]

InitSeries ==
    /\ pc = "call"
    /\ NoSession
    /\ NoLlm
    /\ bpIn \in SeriesArgs
    /\ bpOut = None
    /\ dangIn = Idle
    /\ dangOut = None
    /\ divIn = Idle
    /\ divOut = None

NextSeries == BuyPoint_analyze

SpecSeries == InitSeries /\ [][NextSeries]_vars

\* -- support price: prices around 200, 60-bar ranges 200..199, 204..180, --
\* -- 210..190 and 200..160                                               --
SupportRuns ==
    { Run(len, 200, hl[1], hl[2]) :
          len \in {30, 60}, hl \in { <<200, 199>>, <<204, 180>>, <<210, 190>>, <<200, 160>> } }
SupportFrames == FramesUpTo(SupportRuns, MaxRuns)

SupportArgs ==
    [ df : SupportFrames, quote : { None, Some(205) },
      ma5 : { Some(0), Some(190), Some(197), Some(201) },
      ma10 : { None, Some(197), Some(198) },
      ma20 : { Some(0), Some(190) },
      ma120 : { None, Some(150), Some(197) }, volume_ratio : { Some(100) } ]

InitSupport ==
    /\ pc = "call"
    /\ NoSession
    /\ NoLlm
    /\ bpIn \in SupportArgs
    /\ bpOut = None
    /\ dangIn = Idle
    /\ dangOut = None
    /\ divIn = Idle
    /\ divOut = None

NextSupport == BuyPoint_analyze

SpecSupport == InitSupport /\ [][NextSupport]_vars

\* -- take-profit price: closes of 100 under highs of 102, 103, 104 and 120, --
\* -- in runs of 5, 19, 20 and 60 bars; 103 is exactly 3% over a price of 100 --
TakeProfitRuns ==
    { Run(len, 100, high, 95) : len \in {5, 19, 20, 60}, high \in {102, 103, 104, 120} }
TakeProfitFrames == FramesUpTo(TakeProfitRuns, MaxRuns)

TakeProfitArgs ==
    [ df : TakeProfitFrames, quote : { None, Some(99), Some(101) },
      ma5 : { Some(100) }, ma10 : { Some(100) }, ma20 : { Some(100) },
      ma120 : { None, Some(100) }, volume_ratio : { Some(100) } ]

InitTakeProfit ==
    /\ pc = "call"
    /\ NoSession
    /\ NoLlm
    /\ bpIn \in TakeProfitArgs
    /\ bpOut = None
    /\ dangIn = Idle
    /\ dangOut = None
    /\ divIn = Idle
    /\ divOut = None

NextTakeProfit == BuyPoint_analyze

SpecTakeProfit == InitTakeProfit /\ [][NextTakeProfit]_vars

\* -- evaluate_pe and evaluate_dividend called on their own: dangIn is the   --
\* -- call with its arguments, dangOut the (status, score) returned          --
StockTypes == { "CYCLICAL", "BANKING", "TECH", "CONSUMER", "DEFAULT" }
PeLevels == { "ideal", "acceptable", "warning", "danger" }

\* hundredths: missing, negative, zero, 0.01, and every threshold of the table
\* with the values 0.01 below and above it
PeGrid ==
    { None, Some(-500), Some(0), Some(1) }
        \cup { Some(PE_THRESHOLDS[s][l] + e) : s \in StockTypes, l \in PeLevels, e \in {-1, 0, 1} }

\* hundredths of a percent: missing, negative, zero, and every band boundary
\* with the values 0.01 below and above it
DividendGrid ==
    { None, Some(-100), Some(0), Some(1), Some(99), Some(100), Some(101), Some(299),
      Some(300), Some(301), Some(499), Some(500), Some(501), Some(1200) }

ValuationCalls ==
    [ op : { "evaluate_pe" }, pe : PeGrid, stock_type : StockTypes ]
        \cup [ op : { "evaluate_dividend" }, dividend_yield : DividendGrid ]

InitValuation ==
    /\ pc = "call"
    /\ NoSession
    /\ NoLlm
    /\ dangIn \in ValuationCalls
    /\ dangOut = None
    /\ bpIn = Idle
    /\ bpOut = None
    /\ divIn = Idle
    /\ divOut = None

DangFilter_evaluate_pe ==
    /\ pc = "call"
    /\ dangIn # Idle
    /\ dangIn.op = "evaluate_pe"
    /\ dangOut' = Some(evaluate_pe(dangIn.pe, dangIn.stock_type))
    /\ pc' = "done"
    /\ UNCHANGED <<dangIn, bpIn, bpOut, divIn, divOut, sessionVars, llmVars>>

DangFilter_evaluate_dividend ==
    /\ pc = "call"
    /\ dangIn # Idle
    /\ dangIn.op = "evaluate_dividend"
    /\ dangOut' = Some(evaluate_dividend(dangIn.dividend_yield))
    /\ pc' = "done"
    /\ UNCHANGED <<dangIn, bpIn, bpOut, divIn, divOut, sessionVars, llmVars>>

NextValuation == DangFilter_evaluate_pe \/ DangFilter_evaluate_dividend

SpecValuation == InitValuation /\ [][NextValuation]_vars

\* -- DividendAnalyzer.calculate_expected_yield --
\* '--', '20%', '45.5%', '250%', and NaN, for the annual reports of a year
CommonCells ==
    { TextCell(<<45, 45>>), TextCell(<<50, 48, 37>>), TextCell(<<52, 53, 46, 53, 37>>),
      TextCell(<<50, 53, 48, 37>>), NaNCell }

\* '0%', '-5%', '200%', '199.9%', '30%', '29.9%', 'x', '%', '30' and a float
RareCells ==
    { TextCell(<<48, 37>>), TextCell(<<45, 53, 37>>), TextCell(<<50, 48, 48, 37>>),
      TextCell(<<49, 57, 57, 46, 57, 37>>), TextCell(<<51, 48, 37>>),
      TextCell(<<50, 57, 46, 57, 37>>), TextCell(<<120>>), TextCell(<<37>>),
      TextCell(<<51, 48>>), FloatCell }

HistoryYears == 2020..2023

Row(year, annual, cell) == [year |-> year, annual |-> annual, cell |-> cell]

\* no annual report for a year
NoReport == [kind |-> "absent", text |-> <<>>]

\* the annual rows of a choice of cell per year, oldest first
RECURSIVE AnnualRows(_, _)
AnnualRows(choice, year) ==
    IF year \notin HistoryYears THEN <<>>
    ELSE (IF choice[year] = NoReport THEN <<>> ELSE << Row(year, TRUE, choice[year]) >>)
             \o AnnualRows(choice, year + 1)

RECURSIVE Reversed(_)
Reversed(rows) == IF rows = <<>> THEN <<>> ELSE Reversed(Tail(rows)) \o <<rows[1]>>

\* histories listed newest first; the same listed oldest first after an
\* interim report of 60%; one annual report with a rare cell, alone or
\* before an older report of 20%
Histories ==
    LET choices == [HistoryYears -> CommonCells \cup {NoReport}]
        interim == Row(2023, FALSE, TextCell(<<54, 48, 37>>))
        older == Row(2022, TRUE, TextCell(<<50, 48, 37>>))
    IN  { Reversed(AnnualRows(c, 2020)) : c \in choices }
            \cup { <<interim>> \o AnnualRows(c, 2020) : c \in choices }
            \cup { << Row(2023, TRUE, cell) >> : cell \in RareCells }
            \cup { << Row(2023, TRUE, cell), older >> : cell \in RareCells }

FhpsResponses ==
    { [raises |-> TRUE, rows |-> <<>>] } \cup { [raises |-> FALSE, rows |-> h] : h \in Histories }

\* the 行业 row: absent, '银行', '电力', '煤炭', '软件', '纺织'
InfoResponses ==
    { [raises |-> TRUE, industry |-> None], [raises |-> FALSE, industry |-> None] }
        \cup { [raises |-> FALSE, industry |-> Some(t)] :
                   t \in { <<38134, 34892>>, <<30005, 21147>>, <<29028, 28845>>,
                           <<36719, 20214>>, <<32442, 32455>> } }

\* the stock type given by the caller, or looked up when it is None or ''
TypeAndInfo ==
    { [stock_type |-> Some(t), info |-> [raises |-> TRUE, industry |-> None]] :
          t \in { "bank", "utility", "cyclical", "tech", "default" } }
        \cup { [stock_type |-> None, info |-> i] : i \in InfoResponses }
        \cup { [stock_type |-> Some(""), info |-> [raises |-> FALSE, industry |-> Some(<<38134, 34892>>)]] }

\* calls with a valid price and PE, and calls with a price or PE that is not
YieldCalls ==
    { [current_price |-> p[1], pe_dynamic |-> Some(p[2]), stock_type |-> ti.stock_type,
       info |-> ti.info, fhps |-> f] :
          p \in { <<10, 5>>, <<37, 8>> }, ti \in TypeAndInfo, f \in FhpsResponses }
        \cup
    { [current_price |-> p, pe_dynamic |-> pe, stock_type |-> ti.stock_type,
       info |-> ti.info, fhps |-> f] :
          p \in { -1, 0, 10 }, pe \in { None, Some(-5), Some(0) }, ti \in TypeAndInfo,
          f \in { [raises |-> TRUE, rows |-> <<>>],
                  [raises |-> FALSE, rows |-> << Row(2023, TRUE, TextCell(<<51, 48, 37>>)) >>] } }
        \cup
    { [current_price |-> p, pe_dynamic |-> Some(8), stock_type |-> Some("bank"),
       info |-> [raises |-> TRUE, industry |-> None],
       fhps |-> [raises |-> FALSE, rows |-> <<>>]] : p \in { -1, 0 } }

InitYield ==
    /\ pc = "call"
    /\ NoSession
    /\ NoLlm
    /\ divIn \in YieldCalls
    /\ divOut = None
    /\ dangIn = Idle
    /\ dangOut = None
    /\ bpIn = Idle
    /\ bpOut = None

DividendAnalyzer_calculate_expected_yield ==
    /\ pc = "call"
    /\ divIn # Idle
    /\ divOut' = Some(CalculateExpectedYield(divIn))
    /\ pc' = "done"
    /\ UNCHANGED <<dangIn, dangOut, bpIn, bpOut, divIn, sessionVars, llmVars>>

NextYield == DividendAnalyzer_calculate_expected_yield

SpecYield == InitYield /\ [][NextYield]_vars

(***************************************************************************)
(* A session of scorer calls on several instances.  DangFilter.__init__    *)
(* and BuyPointAnalyzer.__init__ are "pass": an instance has no field.     *)
(* DangAnalysisResult.risk_items is a Python list, an object with          *)
(* identity: heap[a] is the content of the list at address a, and a result *)
(* holds the address of its list.                                          *)
(***************************************************************************)
\* a session is at most MaxCalls calls
MaxCalls == 3

Instances == {1, 2}

\* a class-level default list shared by every result
PostInitSharedDefault(h) ==
    [heap |-> IF h = <<>> THEN << <<>> >> ELSE h, address |-> 1]

\* DangAnalysisResult.__post_init__ after DangAnalysisResult(): risk_items is
\* None, so a new empty list is made
PostInitRiskItems(h) == [heap |-> Append(h, <<>>), address |-> Len(h) + 1]

\* result.risk_items.append(...), once for every item in order
ListExtend(h, address, items) == [h EXCEPT ![address] = @ \o items]

\* DangFilter.analyze with its result object on the heap
SessionDangAnalyze(h, a) ==
    LET made == PostInitRiskItems(h)
        r    == DangAnalyze(a)
    IN  [ heap   |-> ListExtend(made.heap, made.address, r.risk_items),
          result |-> [r EXCEPT !.risk_items = made.address] ]

\* the value of a DangAnalysisResult as a reader sees it
Deref(h, result) == [result EXCEPT !.risk_items = h[@]]

\* "光伏" at PE 50.01 after a 50% rise with selling; "银行" at PE 4 with a 5%
\* yield; "软件" at PE 300.01; no industry and no data
SessionDangArgs ==
    { [ industry |-> <<20809, 20239>>, pe |-> Some(5001), dividend_yield |-> Some(0),
        price_change_pct |-> Some(5000), price_from_high_pct |-> None,
        shareholder_selling |-> TRUE ],
      [ industry |-> <<38134, 34892>>, pe |-> Some(400), dividend_yield |-> Some(500),
        price_change_pct |-> None, price_from_high_pct |-> Some(1500),
        shareholder_selling |-> FALSE ],
      [ industry |-> <<36719, 20214>>, pe |-> Some(30001), dividend_yield |-> None,
        price_change_pct |-> Some(3000), price_from_high_pct |-> None,
        shareholder_selling |-> FALSE ],
      [ industry |-> <<>>, pe |-> None, dividend_yield |-> None,
        price_change_pct |-> None, price_from_high_pct |-> None,
        shareholder_selling |-> TRUE ] }

SessionBuyPointArgs ==
    { [ df |-> << Run(30, 100, 101, 95) >>, quote |-> None, ma5 |-> Some(99),
        ma10 |-> Some(96), ma20 |-> Some(92), ma120 |-> Some(90),
        volume_ratio |-> Some(150) ],
      [ df |-> << Run(30, 100, 110, 95) >>, quote |-> Some(97), ma5 |-> Some(100),
        ma10 |-> Some(99), ma20 |-> Some(96), ma120 |-> Some(104),
        volume_ratio |-> Some(50) ],
      [ df |-> << Run(5, 100, 120, 90), Run(5, 100, 101, 95) >>, quote |-> None,
        ma5 |-> None, ma10 |-> None, ma20 |-> None, ma120 |-> None,
        volume_ratio |-> None ] }

NoScorer ==
    /\ dangIn = Idle /\ dangOut = None
    /\ bpIn = Idle /\ bpOut = None
    /\ divIn = Idle /\ divOut = None

InitSession ==
    /\ pc = "session"
    /\ heap = <<>>
    /\ session = <<>>
    /\ NoScorer
    /\ NoLlm

Session_DangFilter_analyze ==
    /\ pc = "session"
    /\ Len(session) < MaxCalls
    /\ \E i \in Instances, a \in SessionDangArgs :
          LET out == SessionDangAnalyze(heap, a)
          IN  /\ heap' = out.heap
              /\ session' = Append(session,
                     [ scorer |-> "dang", instance |-> i, args |-> a,
                       result |-> Some(out.result),
                       returned |-> Some(Deref(out.heap, out.result)) ])
    /\ UNCHANGED <<pc, scorerVars, llmVars>>

Session_BuyPoint_analyze ==
    /\ pc = "session"
    /\ Len(session) < MaxCalls
    /\ \E i \in Instances, a \in SessionBuyPointArgs :
          session' = Append(session,
              [ scorer |-> "buy_point", instance |-> i, args |-> a,
                result |-> BuyPointAnalyze(a),
                returned |-> BuyPointAnalyze(a) ])
    /\ UNCHANGED <<pc, heap, scorerVars, llmVars>>

NextSession == Session_DangFilter_analyze \/ Session_BuyPoint_analyze

SpecSession == InitSession /\ [][NextSession]_vars

(***************************************************************************)
(* Inputs of GeminiAnalyzer: configurations, library behaviour, contexts   *)
(* and what a request to either API may answer                             *)
(***************************************************************************)
\* a call makes at most MaxRetries attempts on each API
MaxRetries == 3
\* batch_analyze receives at most MaxContexts contexts
MaxContexts == 2

\* 'your_api_key_here', 'abc123', 'AIzaSy012345', 'sk-0123456789'
PlaceholderKey == <<121, 111, 117, 114, 95, 97, 112, 105, 95, 107, 101, 121, 95,
                    104, 101, 114, 101>>
ShortKey == <<97, 98, 99, 49, 50, 51>>
GeminiKey == <<65, 73, 122, 97, 83, 121, 48, 49, 50, 51, 52, 53>>
OpenaiKey == <<115, 107, 45, 48, 49, 50, 51, 52, 53, 54, 55, 56, 57>>
\* 'http://h', 'localhost'
HttpUrl == <<104, 116, 116, 112, 58, 47, 47, 104>>
OtherUrl == <<108, 111, 99, 97, 108, 104, 111, 115, 116>>

\* '429', 'Quota', 'timeout'
ApiErrors == { <<52, 50, 57>>, <<81, 117, 111, 116, 97>>,
               <<116, 105, 109, 101, 111, 117, 116>> }

Response(kind, score, positive, negative) ==
    [kind |-> kind, score |-> score, positive |-> positive, negative |-> negative]

\* a JSON object, a JSON object whose sentiment_score is no number, broken JSON
\* in a bullish text, a text without braces, and the empty text
ApiResponses ==
    { Response("json", 80, 0, 0), Response("json_bad_score", 0, 0, 0),
      Response("malformed_json", 0, 3, 0), Response("no_json", 0, 0, 0),
      Response("empty", 0, 0, 0) }

ApiOutcomes ==
    { [raises |-> FALSE, message |-> <<>>, response |-> r] : r \in ApiResponses }
    \cup { [raises |-> TRUE, message |-> m, response |-> Response("empty", 0, 0, 0)] :
               m \in ApiErrors }

\* the api_key argument of GeminiAnalyzer(...)
ApiKeyArguments == { <<>>, GeminiKey }

\* "贵州茅台"; "股票300750"
Context(code, stock_name, realtime) ==
    [code |-> code, stock_name |-> stock_name, realtime |-> realtime]
NamedContext == Context("600519", Some(<<36149, 24030, 33541, 21488>>), "named")
QuoteNamedContext == Context("000001", None, "named")
UnquotedContext ==
    Context("300750", Some(<<32929, 31080, 51, 48, 48, 55, 53, 48>>), "None")
BareContext == Context("688001", None, "absent")

RECURSIVE ContextListsUpTo(_, _)
ContextListsUpTo(contexts, k) ==
    IF k = 0 THEN { <<>> }
    ELSE LET L == ContextListsUpTo(contexts, k - 1)
         IN  L \cup { l \o <<c>> : l \in L, c \in contexts }

InitAnalyzer(configs, envs, contextLists) ==
    /\ pc = "new"
    /\ NoScorer
    /\ NoSession
    /\ config \in configs
    /\ env \in envs
    /\ analyzer = Idle
    /\ call = Idle
    /\ batch \in [contexts : contextLists, next : {1}, results : { <<>> }]

\* analyzer = GeminiAnalyzer(api_key)
GeminiAnalyzer_init ==
    /\ pc = "new"
    /\ \E api_key \in ApiKeyArguments :
           analyzer' = GeminiAnalyzerInit(api_key, config, env)
    /\ pc' = "ready"
    /\ UNCHANGED <<config, env, call, batch, scorerVars, sessionVars>>

\* batch_analyze calls analyze(context) for the next context; analyze runs up to
\* its call of _call_api_with_retry, or returns, or raises from its first lines
GeminiAnalyzer_analyze ==
    /\ pc = "ready"
    /\ batch.next <= Len(batch.contexts)
    /\ LET context == batch.contexts[batch.next]
           named   == ResolveName(context)
       IN  IF named.raised
           THEN /\ pc' = "raised"
                /\ UNCHANGED <<call, batch>>
           ELSE IF ~is_available(analyzer)
           THEN /\ pc' = "ready"
                /\ batch' = [batch EXCEPT
                                !.results = Append(@, FailureResult(context.code,
                                     named.name, GeminiKeyNotConfigured, "unavailable")),
                                !.next = @ + 1]
                /\ UNCHANGED call
           ELSE /\ pc' = "calling"
                /\ call' = CallApiWithRetryEnter(analyzer, config, context.code,
                                                 named.name)
                /\ UNCHANGED batch
    /\ UNCHANGED <<config, env, analyzer, scorerVars, sessionVars>>

\* one Gemini attempt of _call_api_with_retry
Gemini_request ==
    /\ pc = "calling"
    /\ call.phase = "gemini"
    /\ \E outcome \in ApiOutcomes :
           LET step == GeminiAttempt(analyzer, call, config, env, outcome)
           IN  analyzer' = step.self /\ call' = step.call
    /\ UNCHANGED <<pc, config, env, batch, scorerVars, sessionVars>>

\* the Gemini attempts are used up: OpenAI, initialised now if need be, or raise
Gemini_exhausted ==
    /\ pc = "calling"
    /\ call.phase = "exhausted"
    /\ LET step == AfterGemini(analyzer, call, config, env)
       IN  analyzer' = step.self /\ call' = step.call
    /\ UNCHANGED <<pc, config, env, batch, scorerVars, sessionVars>>

\* one attempt of _call_openai_api
OpenAI_request ==
    /\ pc = "calling"
    /\ call.phase = "openai"
    /\ \E outcome \in ApiOutcomes : call' = OpenaiAttempt(call, config, outcome)
    /\ UNCHANGED <<pc, config, env, analyzer, batch, scorerVars, sessionVars>>

\* _call_api_with_retry has returned or raised: analyze parses the response or
\* builds the failure result, and batch_analyze appends it
GeminiAnalyzer_analyze_return ==
    /\ pc = "calling"
    /\ call.phase \in {"returned", "raised"}
    /\ batch' = [batch EXCEPT !.results = Append(@, AnalyzeFinish(call)),
                              !.next = @ + 1]
    /\ call' = Idle
    /\ pc' = "ready"
    /\ UNCHANGED <<config, env, analyzer, scorerVars, sessionVars>>

\* batch_analyze returns its results
GeminiAnalyzer_batch_analyze_return ==
    /\ pc = "ready"
    /\ batch.next > Len(batch.contexts)
    /\ pc' = "returned"
    /\ UNCHANGED <<config, env, analyzer, call, batch, scorerVars, sessionVars>>

NextAnalyzer ==
    \/ GeminiAnalyzer_init
    \/ GeminiAnalyzer_analyze
    \/ Gemini_request
    \/ Gemini_exhausted
    \/ OpenAI_request
    \/ GeminiAnalyzer_analyze_return
    \/ GeminiAnalyzer_batch_analyze_return

\* -- construction: every kind of key and of library behaviour, one attempt --
\* -- per API, two analyses                                                 --
ConstructConfigs ==
    [ gemini_api_key : { <<>>, PlaceholderKey, ShortKey, GeminiKey },
      openai_api_key : { <<>>, PlaceholderKey, ShortKey, OpenaiKey },
      openai_base_url : { <<>>, HttpUrl, OtherUrl },
      gemini_max_retries : {1},
      gemini_retry_delay : {5} ]
ConstructEnvs ==
    [ genai : BOOLEAN, primary : BOOLEAN, fallback : BOOLEAN,
      openai : {"ok", "import_error", "client_error"} ]

InitConstruct ==
    InitAnalyzer(ConstructConfigs, ConstructEnvs, { <<NamedContext, BareContext>> })

SpecConstruct == InitConstruct /\ [][NextAnalyzer]_vars

\* -- one call of _call_api_with_retry: 0..MaxRetries attempts, delays of 5 --
\* -- and 40 seconds                                                        --
RetryConfigs ==
    [ gemini_api_key : { <<>>, GeminiKey },
      openai_api_key : { <<>>, PlaceholderKey, OpenaiKey },
      openai_base_url : { <<>>, HttpUrl },
      gemini_max_retries : 0..MaxRetries,
      gemini_retry_delay : {5, 40} ]
RetryEnvs ==
    [ genai : {TRUE}, primary : BOOLEAN, fallback : BOOLEAN,
      openai : {"ok", "client_error"} ]

InitRetry == InitAnalyzer(RetryConfigs, RetryEnvs, { <<NamedContext>> })

SpecRetry == InitRetry /\ [][NextAnalyzer]_vars

\* the interpreter runs the call to its end: no step of it waits for another
\* thread, and each request returns or raises (the Gemini request is given a
\* timeout of 120 seconds)
SpecRetryLive == SpecRetry /\ WF_vars(NextAnalyzer)

\* -- batch_analyze over lists of contexts --
BatchConfigs ==
    [ gemini_api_key : { <<>>, GeminiKey },
      openai_api_key : { <<>>, OpenaiKey },
      openai_base_url : { HttpUrl },
      gemini_max_retries : {1},
      gemini_retry_delay : {5} ]
BatchEnvs ==
    [ genai : {TRUE}, primary : {TRUE}, fallback : {TRUE}, openai : {"ok"} ]
BatchContexts == { NamedContext, QuoteNamedContext, UnquotedContext, BareContext }

InitBatch ==
    InitAnalyzer(BatchConfigs, BatchEnvs, ContextListsUpTo(BatchContexts, MaxContexts))

SpecBatch == InitBatch /\ [][NextAnalyzer]_vars

(***************************************************************************)
(* C1  For every combination of inputs of DangFilter.analyze the returned  *)
(*     fundamental_score satisfies 0 <= fundamental_score <= 60.           *)
(***************************************************************************)
C1_ScoreClamped ==
    pc = "done" =>
        /\ Val(dangOut).fundamental_score >= 0
        /\ Val(dangOut).fundamental_score <= 60

\* a call whose unclamped sum is negative (extreme penalties) has returned
C1_Witness ==
    /\ pc = "done"
    /\ Val(dangOut).raw_score < 0
    /\ Val(dangOut).fundamental_score = 0

(***************************************************************************)
(* C2  The returned fundamental_score is                                   *)
(*     clamp(pe_score + dividend_score + industry_score + risk_penalty,    *)
(*     0, 60), industry_score being 15/10/5/0 for preferred/normal/        *)
(*     caution/blacklist and risk_penalty exactly the sum of -10 when      *)
(*     price_change_pct >= 30 (once, at the 30% line and at the 50% line), *)
(*     -5 for shareholder_selling, -5 for a blacklist industry, -5 for a   *)
(*     dangerous PE and -3 for a poor dividend; nothing else enters.       *)
(***************************************************************************)
C2_ExpectedPenalty ==
    LET out == Val(dangOut) IN
      (IF ~IsNone(dangIn.price_change_pct) /\ Val(dangIn.price_change_pct) >= 3000
       THEN -10 ELSE 0)
    + (IF dangIn.shareholder_selling THEN -5 ELSE 0)
    + (IF out.industry_tier = "BLACKLIST" THEN -5 ELSE 0)
    + (IF out.pe_status = "danger" THEN -5 ELSE 0)
    + (IF out.dividend_status = "poor" THEN -3 ELSE 0)

C2_ExpectedIndustryScore ==
    LET tier == Val(dangOut).industry_tier IN
    IF tier = "PREFERRED" THEN 15
    ELSE IF tier = "NORMAL" THEN 10
    ELSE IF tier = "CAUTION" THEN 5
    ELSE 0

C2_ScoreFormula ==
    pc = "done" =>
        LET out == Val(dangOut)
            sum == out.pe_score + out.dividend_score + C2_ExpectedIndustryScore
                   + C2_ExpectedPenalty
        IN  /\ out.industry_tier \in {"PREFERRED", "NORMAL", "CAUTION", "BLACKLIST"}
            /\ out.risk_penalty = C2_ExpectedPenalty
            /\ out.fundamental_score = (IF sum < 0 THEN 0 ELSE IF sum > 60 THEN 60 ELSE sum)

\* the 50% line is hit together with shareholder selling and a poor dividend,
\* and the sum lies inside the range, so the clamp does not hide the penalty
C2_Witness ==
    /\ pc = "done"
    /\ ~IsNone(dangIn.price_change_pct) /\ Val(dangIn.price_change_pct) >= 5000
    /\ dangIn.shareholder_selling
    /\ Val(dangOut).dividend_status = "poor"
    /\ Val(dangOut).risk_penalty = -18
    /\ Val(dangOut).fundamental_score = Val(dangOut).raw_score
    /\ Val(dangOut).fundamental_score > 0

(***************************************************************************)
(* The arguments of a buy-point call as the claims below read them:        *)
(* integers, with a missing column at the default of the code.             *)
(***************************************************************************)
BpPrice == IF ~IsNone(bpIn.quote) /\ Val(bpIn.quote) > 0
           THEN Val(bpIn.quote) ELSE bpIn.df[Len(bpIn.df)].close
BpMa5 == IF IsNone(bpIn.ma5) THEN 0 ELSE Val(bpIn.ma5)
BpMa10 == IF IsNone(bpIn.ma10) THEN 0 ELSE Val(bpIn.ma10)
BpMa20 == IF IsNone(bpIn.ma20) THEN 0 ELSE Val(bpIn.ma20)
BpVolumeRatio == IF IsNone(bpIn.volume_ratio) THEN 100 ELSE Val(bpIn.volume_ratio)
BpBars == DfLen(bpIn.df)
BpReturned == pc = "done" /\ bpIn # Idle /\ ~IsNone(bpOut)

\* the conditions of the six rules of the short-signal detector, cross-multiplied
Rule1 == /\ BpVolumeRatio < 80
         /\ (BpMa10 > 0 => 100 * Abs(BpPrice - BpMa10) < 3 * BpMa10)
         /\ BpMa5 # 0 /\ BpMa10 # 0 /\ BpMa20 # 0
         /\ BpMa5 > BpMa10 /\ BpMa10 > BpMa20
Rule2 == /\ BpVolumeRatio < 80
         /\ (BpMa5 > 0 => 100 * Abs(BpPrice - BpMa5) < 2 * BpMa5)
Rule3 == /\ BpVolumeRatio > 150
         /\ BpMa5 > 0 /\ BpPrice > BpMa5
         /\ 100 * (BpPrice - BpMa5) < 5 * BpMa5
Rule4 == BpMa20 > 0 /\ 100 * BpPrice < 98 * BpMa20
Rule5 == \/ BpMa5 > 0 /\ 100 * (BpPrice - BpMa5) > 5 * BpMa5
         \/ BpMa10 > 0 /\ 100 * (BpPrice - BpMa10) > 8 * BpMa10
RecentHigh20 == IF BpBars >= 20 THEN HighMax(DfTail(bpIn.df, 20)) ELSE HighMax(bpIn.df)
Rule3Breakout == 100 * BpPrice >= 98 * RecentHigh20

(***************************************************************************)
(* C3  The short-signal detector returns the outcome of the lowest-numbered*)
(*     rule that matches, the rules being (1) low-volume pullback to MA10  *)
(*     with bullish alignment, (2) low-volume pullback to MA5, (3) high-   *)
(*     volume breakout or rising, (4) breakdown below MA20 * 0.98,         *)
(*     (5) overextended bias, (6) none.                                    *)
(***************************************************************************)
C3_FirstMatchWins ==
    BpReturned =>
        LET out == Val(bpOut)
            expected ==
                IF Rule1 THEN <<"pullback_low_volume", "near_ma10_bullish">>
                ELSE IF Rule2 THEN <<"pullback_low_volume", "near_ma5">>
                ELSE IF Rule3 /\ Rule3Breakout THEN <<"breakout_high_volume", "recent_high">>
                ELSE IF Rule3 THEN <<"rising_high_volume", "above_ma">>
                ELSE IF Rule4 THEN <<"breakdown", "below_ma20">>
                ELSE IF Rule5 THEN <<"overextended", "bias_ma5">>
                ELSE <<"none", "wait">>
        IN  <<out.short_signal, out.short_signal_detail>> = expected

\* rules 3, 4 and 5 match at once and the outcome is that of rule 3
C3_Witness ==
    /\ BpReturned
    /\ ~Rule1 /\ ~Rule2 /\ Rule3 /\ Rule4 /\ Rule5
    /\ Val(bpOut).short_signal \in {"breakout_high_volume", "rising_high_volume"}

C5_NoAveragesNoSignal ==
    (BpReturned /\ BpMa5 = 0 /\ BpMa10 = 0 /\ BpMa20 = 0) =>
        Val(bpOut).short_signal = "none"

(***************************************************************************)
(* C6  For each of the three bullish short signals (low-volume pullback,   *)
(*     high-volume breakout, high-volume rising) the label is best when    *)
(*     ma120_status is below and good otherwise.                           *)
(***************************************************************************)
C6_BullishSignalLabel ==
    (BpReturned /\ Val(bpOut).short_signal \in
         {"pullback_low_volume", "breakout_high_volume", "rising_high_volume"}) =>
        IF Val(bpOut).ma120_status = "below"
        THEN Val(bpOut).label = "STAR" /\ Val(bpOut).label_text = "best"
        ELSE Val(bpOut).label = "GREEN" /\ Val(bpOut).label_text = "good"

(***************************************************************************)
(* C7  The label watch (value zone) is produced exactly when the short     *)
(*     signal is none, ma120_status is below and the MA120 deviation is    *)
(*     less than -5%; every other case that is neither breakdown nor       *)
(*     bullish is labelled plain watch.                                    *)
(***************************************************************************)
C7_DeviationBelowMinus5 ==
    LET ma120 == ResolveMa120(RI(GetOr(bpIn.ma120, 0)), bpIn.df)
    IN  100 * (BpPrice * ma120.d - ma120.n) < -5 * ma120.n

C7_ValueZoneOnlyWithoutSignal ==
    BpReturned =>
        LET out == Val(bpOut)
            value_zone == /\ out.short_signal = "none"
                          /\ out.ma120_status = "below"
                          /\ C7_DeviationBelowMinus5
        IN  /\ (out.label_text = "watch_value_zone") <=> value_zone
            /\ (out.short_signal \in {"none", "overextended"} /\ ~value_zone)
                   => (out.label = "YELLOW" /\ out.label_text = "watch")

(***************************************************************************)
(* The frame bar by bar, for the claims that speak of the most recent bars *)
(***************************************************************************)
RECURSIVE FlatBars(_)
FlatBars(df) ==
    IF df = <<>> THEN <<>>
    ELSE LET r == df[1] IN
         [i \in 1..r.len |-> [close |-> r.close, high |-> r.high, low |-> r.low]]
             \o FlatBars(Tail(df))

\* the most recent min(n, k) bars
RecentBars(k) ==
    LET bars == FlatBars(bpIn.df)
        n == Len(bars)
    IN  SubSeq(bars, Max2(1, n - k + 1), n)

RECURSIVE SumCloses(_)
SumCloses(bars) ==
    IF Len(bars) = 0 THEN 0
    ELSE IF Len(bars) = 1 THEN bars[1].close
    ELSE LET half == Len(bars) \div 2
         IN  SumCloses(SubSeq(bars, 1, half)) + SumCloses(SubSeq(bars, half + 1, Len(bars)))

MeanOfRecent120 == Rat(SumCloses(RecentBars(120)), Len(RecentBars(120)))
BpStoredMa120 == IF IsNone(bpIn.ma120) THEN 0 ELSE Val(bpIn.ma120)

FibLevels ==
    LET bars == RecentBars(60)
        hi == CHOOSE h \in { bars[i].high : i \in 1..Len(bars) } :
                  \A i \in 1..Len(bars) : bars[i].high <= h
        lo == CHOOSE l \in { bars[i].low : i \in 1..Len(bars) } :
                  \A i \in 1..Len(bars) : bars[i].low >= l
    IN  { Rat(1000 * hi - r * (hi - lo), 1000) : r \in {382, 500, 618} }

\* MA5, MA10, MA20, MA120 as the locator receives them
CandidateMas ==
    << RI(BpMa5), RI(BpMa10), RI(BpMa20),
       ResolveMa120(RI(BpStoredMa120), bpIn.df) >>

BelowThreshold(x) == 1000 * x.n < 995 * BpPrice * x.d
BelowPrice(x) == x.n < BpPrice * x.d
\* abs(x - m) / m < 0.015, for m > 0
Near(x, m) == 1000 * Abs(x.n * m.d - m.n * x.d) < 15 * m.n * x.d

(***************************************************************************)
(* C9  (as claimed) With at least 60 bars the add-on price returned is the *)
(*     highest support candidate strictly below current_price * 0.995: no  *)
(*     Fibonacci level and no candidate moving average below that bound is *)
(*     higher than the returned price.                                     *)
(***************************************************************************)
C9_NoCandidateAboveReturned ==
    (BpReturned /\ BpBars >= 60 /\ ~IsNone(Val(bpOut).add_price)) =>
        LET ret == Val(Val(bpOut).add_price) IN
        /\ \A f \in FibLevels : BelowThreshold(f) => RLe(Round2(f), ret)
        /\ \A i \in 1..4 :
               (RPos(CandidateMas[i]) /\ BelowThreshold(CandidateMas[i]))
                   => RLe(Round2(CandidateMas[i]), ret)

(***************************************************************************)
(* C9  (amended) With at least 60 bars the add-on price returned is the    *)
(*     highest of the candidates that survive deduplication: it is a       *)
(*     Fibonacci level or a positive moving average below current_price *  *)
(*     0.995, rounded to 0.01; no Fibonacci level below that bound is      *)
(*     higher; and a positive moving average below that bound is higher    *)
(*     only if it lies within 1.5% of a Fibonacci level below the current  *)
(*     price or of a moving average listed before it that is below the     *)
(*     current price.                                                      *)
(***************************************************************************)
C9_HighestSurvivingCandidate ==
    (BpReturned /\ BpBars >= 60) =>
        LET ret == Val(bpOut).add_price
            covers(x) == ~IsNone(ret) /\ RLe(Round2(x), Val(ret))
        IN  /\ ~IsNone(ret) =>
                   \/ \E f \in FibLevels : BelowThreshold(f) /\ Val(ret) = Round2(f)
                   \/ \E i \in 1..4 : /\ RPos(CandidateMas[i])
                                      /\ BelowThreshold(CandidateMas[i])
                                      /\ Val(ret) = Round2(CandidateMas[i])
            /\ \A f \in FibLevels : BelowThreshold(f) => covers(f)
            /\ \A i \in 1..4 :
                   LET m == CandidateMas[i] IN
                   (RPos(m) /\ BelowThreshold(m)) =>
                       \/ covers(m)
                       \/ \E f \in FibLevels : BelowPrice(f) /\ Near(f, m)
                       \/ \E j \in 1..(i - 1) :
                              /\ RPos(CandidateMas[j]) /\ BelowPrice(CandidateMas[j])
                              /\ Near(CandidateMas[j], m)

\* a Fibonacci level and a moving average more than 1.5% above it both lie
\* below the bound, and the moving average, the higher one, is returned
C9_Witness ==
    /\ BpReturned /\ BpBars >= 60
    /\ \E f \in FibLevels : \E i \in 1..4 :
           /\ BelowThreshold(f)
           /\ \A g \in FibLevels : BelowThreshold(g) => RLe(g, f)
           /\ RPos(CandidateMas[i]) /\ BelowThreshold(CandidateMas[i])
           /\ RLt(f, CandidateMas[i]) /\ ~Near(f, CandidateMas[i])
           /\ Val(bpOut).add_price = Some(Round2(CandidateMas[i]))
           /\ Val(bpOut).add_price_desc.kind = "ma"

MaNames == << "MA5", "MA10", "MA20", "MA120" >>
QualifyingMas == { i \in 1..4 : RPos(CandidateMas[i]) /\ BelowPrice(CandidateMas[i]) }

C11_MaxMovingAverageBelowPrice ==
    (BpReturned /\ BpBars < 60) =>
        LET out == Val(bpOut) IN
        /\ IsNone(out.add_price) <=> (QualifyingMas = {})
        /\ IsNone(out.add_price) => out.add_price_desc.kind = "none"
        /\ ~IsNone(out.add_price) =>
               \E i \in QualifyingMas :
                   /\ \A j \in QualifyingMas : RLe(CandidateMas[j], CandidateMas[i])
                   /\ out.add_price = Some(Round2(CandidateMas[i]))
                   /\ out.add_price_desc = [kind |-> "ma", name |-> MaNames[i]]

\* fewer than 60 bars, two distinct moving averages qualify and a third lies
\* above the price: the higher of the two is returned
C11_Witness ==
    /\ BpReturned /\ BpBars < 60
    /\ \E i, j \in QualifyingMas : RLt(CandidateMas[j], CandidateMas[i])
    /\ \E k \in 1..4 : RPos(CandidateMas[k]) /\ ~BelowPrice(CandidateMas[k])
    /\ ~IsNone(Val(bpOut).add_price)
    /\ \A j \in QualifyingMas : RLe(Round2(CandidateMas[j]), Val(Val(bpOut).add_price))

(***************************************************************************)
(* C12 The take-profit price is reported only when the series has at least *)
(*     20 bars and the maximum high of the trailing 60 bars (all bars if   *)
(*     fewer) strictly exceeds current_price * 1.03; when reported it      *)
(*     equals that maximum high, so a reported take-profit price is always *)
(*     more than 3% above the current price.                               *)
(***************************************************************************)
RecentHigh60 ==
    LET bars == RecentBars(60)
    IN  CHOOSE h \in { bars[i].high : i \in 1..Len(bars) } :
            \A i \in 1..Len(bars) : bars[i].high <= h

C12_TakeProfitAboveThreePercent ==
    BpReturned =>
        LET tp == Val(bpOut).take_profit_price
            offers == BpBars >= 20 /\ 100 * RecentHigh60 > 103 * BpPrice
        IN  /\ ~IsNone(tp) <=> offers
            /\ ~IsNone(tp) =>
                   /\ Val(tp) = RI(RecentHigh60)
                   /\ RGt(Val(tp), RMul(Val(bpOut).current_price, Rat(103, 100)))

\* an older high above the 60-bar window is not the price reported: the
\* take-profit price is the high of the window
C12_Witness ==
    /\ BpReturned /\ BpBars > 60
    /\ \E i \in 1..Len(FlatBars(bpIn.df)) : FlatBars(bpIn.df)[i].high > RecentHigh60
    /\ Val(bpOut).take_profit_price = Some(RI(RecentHigh60))

(***************************************************************************)
(* C13 classify_industry checks the keyword lists in the order blacklist,  *)
(*     preferred, caution and returns the tier of the first list with a    *)
(*     keyword contained in the industry text: blacklist and preferred or  *)
(*     caution together is blacklist, preferred and caution without        *)
(*     blacklist is preferred, and a text matching no list (or an empty    *)
(*     text) is normal.                                                    *)
(***************************************************************************)
HasBlacklistKeyword ==
    \E k \in 1..Len(BLACKLIST_INDUSTRIES) : Contains(BLACKLIST_INDUSTRIES[k], dangIn.industry)
HasPreferredKeyword ==
    \E k \in 1..Len(PREFERRED_INDUSTRIES) : Contains(PREFERRED_INDUSTRIES[k], dangIn.industry)
HasCautionKeyword ==
    \E k \in 1..Len(CAUTION_INDUSTRIES) : Contains(CAUTION_INDUSTRIES[k], dangIn.industry)

C13_FirstListWins ==
    (pc = "done" /\ dangIn # Idle) =>
        LET tier == Val(dangOut).industry_tier IN
        /\ HasBlacklistKeyword => tier = "BLACKLIST"
        /\ (HasPreferredKeyword /\ ~HasBlacklistKeyword) => tier = "PREFERRED"
        /\ (HasCautionKeyword /\ ~HasPreferredKeyword /\ ~HasBlacklistKeyword)
               => tier = "CAUTION"
        /\ (~HasCautionKeyword /\ ~HasPreferredKeyword /\ ~HasBlacklistKeyword)
               => tier = "NORMAL"

\* a text with a blacklist keyword and a preferred keyword was classified
C13_Witness ==
    /\ pc = "done" /\ dangIn # Idle
    /\ HasBlacklistKeyword /\ HasPreferredKeyword
    /\ Val(dangOut).industry_tier = "BLACKLIST"

(***************************************************************************)
(* C14 For every PE archetype the threshold table satisfies ideal <        *)
(*     acceptable < warning < danger, and for positive PE the score        *)
(*     returned by evaluate_pe is non-increasing in PE and takes the       *)
(*     values 25, 20, 10, 0 for the tiers ideal, acceptable, warning,      *)
(*     danger respectively; a missing or non-positive PE yields unknown    *)
(*     with score 10.                                                      *)
(***************************************************************************)
PeCallDone == pc = "done" /\ dangIn # Idle /\ dangIn.op = "evaluate_pe"
PePositive == ~IsNone(dangIn.pe) /\ Val(dangIn.pe) > 0
PeScoreOfStatus == [ideal |-> 25, acceptable |-> 20, warning |-> 10, danger |-> 0]

C14_PeScoreByTier ==
    /\ \A s \in StockTypes :
           /\ PE_THRESHOLDS[s].ideal < PE_THRESHOLDS[s].acceptable
           /\ PE_THRESHOLDS[s].acceptable < PE_THRESHOLDS[s].warning
           /\ PE_THRESHOLDS[s].warning < PE_THRESHOLDS[s].danger
    /\ PeCallDone =>
           LET out == Val(dangOut)
               t == PE_THRESHOLDS[dangIn.stock_type]
           IN  IF ~PePositive THEN out.status = "unknown" /\ out.score = 10
               ELSE LET p == Val(dangIn.pe) IN
                    /\ out.status \in PeLevels
                    /\ out.score = PeScoreOfStatus[out.status]
                    /\ p <= t.ideal => out.status = "ideal"
                    /\ (t.ideal < p /\ p <= t.acceptable) => out.status = "acceptable"
                    /\ (t.acceptable < p /\ p <= t.warning) => out.status = "warning"
                    /\ p > t.danger => out.status = "danger"
                    /\ \A q \in PeGrid :
                           (~IsNone(q) /\ Val(q) >= p)
                               => evaluate_pe(q, dangIn.stock_type).score <= out.score

\* a PE exactly at the ideal threshold of its archetype scored 25, and the next
\* PE of the grid scores 20
C14_Witness ==
    /\ PeCallDone /\ PePositive
    /\ Val(dangIn.pe) = PE_THRESHOLDS[dangIn.stock_type].ideal
    /\ Val(dangOut).score = 25
    /\ evaluate_pe(Some(Val(dangIn.pe) + 1), dangIn.stock_type).score = 20

(***************************************************************************)
(* C15 evaluate_pe classifies a positive PE as danger (score 0) only when  *)
(*     the PE exceeds the danger threshold of its archetype: 30 for        *)
(*     cyclical, 12 for banking, 300 for tech, 50 for consumer and         *)
(*     default.                                                            *)
(***************************************************************************)
C15_DangerOnlyAboveDangerThreshold ==
    (PeCallDone /\ PePositive /\ Val(dangOut).status = "danger") =>
        Val(dangIn.pe) > PE_THRESHOLDS[dangIn.stock_type].danger

(***************************************************************************)
(* C16 evaluate_dividend maps a yield y to excellent/20 when y >= 5,       *)
(*     good/15 when 3 <= y < 5, acceptable/8 when 1 <= y < 3, poor/0 when  *)
(*     y < 1 (each band inclusive at its lower bound), and a missing yield *)
(*     to unknown/5; the score is non-decreasing in y.                     *)
(***************************************************************************)
DividendCallDone == pc = "done" /\ dangIn # Idle /\ dangIn.op = "evaluate_dividend"

C16_DividendBands ==
    DividendCallDone =>
        LET out == Val(dangOut) IN
        IF IsNone(dangIn.dividend_yield)
        THEN out = [status |-> "unknown", score |-> 5]
        ELSE LET y == Val(dangIn.dividend_yield) IN
             /\ y >= 500 => out = [status |-> "excellent", score |-> 20]
             /\ (300 <= y /\ y < 500) => out = [status |-> "good", score |-> 15]
             /\ (100 <= y /\ y < 300) => out = [status |-> "acceptable", score |-> 8]
             /\ y < 100 => out = [status |-> "poor", score |-> 0]
             /\ \A z \in DividendGrid :
                    (~IsNone(z) /\ Val(z) >= y) => evaluate_dividend(z).score >= out.score

\* a yield of exactly 5% was rated excellent, where 4.99% is rated good
C16_Witness ==
    /\ DividendCallDone
    /\ dangIn.dividend_yield = Some(500)
    /\ Val(dangOut) = [status |-> "excellent", score |-> 20]
    /\ evaluate_dividend(Some(499)) = [status |-> "good", score |-> 15]

(***************************************************************************)
(* C17 calculate_expected_yield called with current_price <= 0, or with    *)
(*     pe_dynamic missing or <= 0, returns the pair (0.0, "价格或PE数据无效") *)
(*     without raising and without calling the stock-type or the           *)
(*     dividend-history collaborator.                                      *)
(***************************************************************************)
YieldDone == pc = "done" /\ divIn # Idle
YieldArgsValid ==
    divIn.current_price > 0 /\ ~IsNone(divIn.pe_dynamic) /\ Val(divIn.pe_dynamic) > 0

C17_InvalidPriceOrPeSentinel ==
    (YieldDone /\ ~YieldArgsValid) =>
        /\ ~Val(divOut).raised
        /\ Val(divOut).expected_yield = RI(0)
        /\ Val(divOut).reason = [kind |-> "invalid"]
        /\ Val(divOut).calls = <<>>

\* a call with a valid PE and a price of zero or less, where both lookups
\* would have answered, returned the sentinel
C17_Witness ==
    /\ YieldDone
    /\ divIn.current_price <= 0
    /\ ~IsNone(divIn.pe_dynamic) /\ Val(divIn.pe_dynamic) > 0
    /\ Val(divOut).reason = [kind |-> "invalid"]
    /\ Val(divOut).calls = <<>>

(***************************************************************************)
(* C18 Whenever no valid payout history is available for a stock (the      *)
(*     history is empty, or none of the three most recent annual-report    *)
(*     rows has a payout ratio strictly between 0 and 2.0), the payout     *)
(*     ratio used by calculate_expected_yield is 0.30 for the banking and  *)
(*     utility archetypes and 0.0 for every other archetype.               *)
(***************************************************************************)
YieldStockType ==
    IF IsNone(divIn.stock_type) \/ Val(divIn.stock_type) = ""
    THEN get_stock_type(divIn.info) ELSE Val(divIn.stock_type)
YieldHistory == IF divIn.fhps.raises THEN <<>> ELSE divIn.fhps.rows

\* the annual rows with fewer than three annual rows of a later year
RecentAnnualRows ==
    { i \in 1..Len(YieldHistory) :
          /\ YieldHistory[i].annual
          /\ Cardinality({ j \in 1..Len(YieldHistory) :
                               /\ YieldHistory[j].annual
                               /\ YieldHistory[j].year > YieldHistory[i].year }) < 3 }
NoValidHistory ==
    \A i \in RecentAnnualRows : IsNone(CellPayout(YieldHistory[i].cell))
DefaultPayout == IF YieldStockType \in {"bank", "utility"} THEN Rat(30, 100) ELSE RI(0)

C19_BankFloorAndYieldFormula ==
    YieldDone =>
        LET out == Val(divOut) IN
        /\ ~out.raised
        /\ RGe(out.expected_yield, RI(0))
        /\ YieldArgsValid =>
               LET price == RI(divIn.current_price)
                   eps == Rat(divIn.current_price, Val(divIn.pe_dynamic))
               IN  /\ out.reason.eps_forecast = eps
                   /\ out.expected_yield
                          = RMul(RDiv(RMul(eps, out.reason.final_payout), price), RI(100))
                   /\ YieldStockType = "bank"
                          => RGe(out.reason.final_payout, Rat(30, 100))

\* a bank whose three most recent annual reports average a payout between 0
\* and 30% was given the floor of 30%
C19_Witness ==
    /\ YieldDone /\ YieldArgsValid
    /\ YieldStockType = "bank"
    /\ RPos(Val(divOut).reason.base_payout)
    /\ RLt(Val(divOut).reason.base_payout, Rat(30, 100))
    /\ Val(divOut).reason.final_payout = Rat(30, 100)
    /\ Val(divOut).expected_yield = Rat(30, Val(divIn.pe_dynamic))

(***************************************************************************)
(* C20 A failure of the external dividend-history lookup is converted to   *)
(*     an empty history: calculate_expected_yield with valid price and PE  *)
(*     still returns a (yield, reason) pair computed from the default      *)
(*     payout, and no exception from the collaborator propagates to the    *)
(*     caller.                                                             *)
(***************************************************************************)
C20_HistoryFailureGivesDefault ==
    (YieldDone /\ YieldArgsValid /\ divIn.fhps.raises) =>
        LET out == Val(divOut) IN
        /\ ~out.raised
        /\ out.reason.kind = "trace"
        /\ out.reason.reason_payout = "default"
        /\ out.reason.base_payout = DefaultPayout
        /\ out.expected_yield
               = RDiv(RMul(out.reason.final_payout, RI(100)), RI(Val(divIn.pe_dynamic)))

\* both lookups failed: the type is default, the payout 0 and the yield 0, and
\* the history lookup was called
C20_Witness ==
    /\ YieldDone /\ YieldArgsValid
    /\ divIn.fhps.raises /\ divIn.info.raises /\ IsNone(divIn.stock_type)
    /\ ~Val(divOut).raised
    /\ Val(divOut).calls = <<"get_stock_type", "get_dividend_history">>
    /\ Val(divOut).reason.reason_payout = "default"
    /\ Val(divOut).expected_yield = RI(0)
(***************************************************************************)
(* C21  Every scorer is deterministic and keeps no hidden state: in any    *)
(* session of calls of DangFilter.analyze and of the buy-point analysis,   *)
(* on any instances and in any order, two calls with identical inputs      *)
(* returned equal results, and the result of every call, its risk_items    *)
(* list included, still reads as it did when the call returned.            *)
(***************************************************************************)
\* what the result of the k-th call of the session reads as now
SessionValue(k) ==
    IF session[k].scorer = "dang"
    THEN Some(Deref(heap, Val(session[k].result)))
    ELSE session[k].result

SameCall(i, j) ==
    /\ session[i].scorer = session[j].scorer
    /\ session[i].args = session[j].args

C21_DeterministicNoHiddenState ==
    \A i \in 1..Len(session) :
        /\ SessionValue(i) = session[i].returned
        /\ \A j \in 1..Len(session) :
               SameCall(i, j) => session[i].returned = session[j].returned

\* the same risky stock analysed first and third, on two instances, with
\* another call in between
C21_Witness ==
    /\ Len(session) = 3
    /\ session[1].scorer = "dang"
    /\ SameCall(1, 3)
    /\ ~SameCall(1, 2)
    /\ session[1].instance # session[3].instance
    /\ Len(Val(session[1].returned).risk_items) >= 3
    /\ Val(session[1].result).risk_items # Val(session[3].result).risk_items

(***************************************************************************)
(* C22  After DangFilter.analyze, risk_items holds one description for     *)
(* every risk rule that contributed a penalty to risk_penalty, in the      *)
(* order profit-take, shareholder selling, blacklist industry, dangerous   *)
(* PE, poor dividend, and holds nothing when risk_penalty is 0.            *)
(***************************************************************************)
\* the rule an item of risk_items describes
RuleOfItem(item) ==
    IF item \in {"profit_take_50", "profit_take_30"} THEN "profit_take"
    ELSE IF item = "shareholder_selling" THEN "shareholder_selling"
    ELSE IF item = "industry_comment" THEN "blacklist_industry"
    ELSE IF item = "pe_comment" THEN "pe_too_high"
    ELSE "no_dividend"

\* the rules that added to risk_penalty, in the order of the claim
TriggeredRules(a, r) ==
    (IF r.profit_take_alert THEN <<"profit_take">> ELSE <<>>)
    \o (IF a.shareholder_selling THEN <<"shareholder_selling">> ELSE <<>>)
    \o (IF r.industry_tier = "BLACKLIST" THEN <<"blacklist_industry">> ELSE <<>>)
    \o (IF r.pe_status = "danger" THEN <<"pe_too_high">> ELSE <<>>)
    \o (IF r.dividend_status = "poor" THEN <<"no_dividend">> ELSE <<>>)

C22_RiskItemsListEveryTriggeredRule ==
    (pc = "done" /\ ~IsNone(dangOut)) =>
        LET r == Val(dangOut)
        IN  /\ [k \in 1..Len(r.risk_items) |-> RuleOfItem(r.risk_items[k])]
                   = TriggeredRules(dangIn, r)
            /\ (r.risk_penalty = 0 => r.risk_items = <<>>)

(***************************************************************************)
(* C29 The advice text of a BuyPointResult mentions an add-on price only   *)
(* when add_price is present: whenever the label is best or good with a    *)
(* low-volume-pullback signal, which are the two advice templates that     *)
(* substitute the add-on price, add_price is not None.                     *)
(***************************************************************************)
C29_AdviceMentionsPresentAddPrice ==
    BpReturned =>
        LET r == Val(bpOut)
        IN  /\ (r.label \in {"STAR", "GREEN"} /\ r.short_signal = "pullback_low_volume")
                   => ~IsNone(r.add_price)
            /\ ~IsNone(r.current_advice.mentions)
                   => ~IsNone(Val(r.current_advice.mentions))

(***************************************************************************)
(* C30 Whenever a BuyPointResult is labelled best or good and reports a    *)
(* stop-loss price (MA20 * 0.98 with MA20 > 0), the stop-loss price is not *)
(* above the current price.                                                *)
(***************************************************************************)
C30_StopLossNotAbovePrice ==
    BpReturned =>
        LET r == Val(bpOut)
        IN  (r.label \in {"STAR", "GREEN"} /\ ~IsNone(r.stop_loss_price))
                => RLe(Val(r.stop_loss_price), r.current_price)

(***************************************************************************)
(* C23 If the Gemini model cannot be initialised in the GeminiAnalyzer     *)
(* constructor while a valid OpenAI-compatible key is configured, the      *)
(* constructor initialises the OpenAI-compatible client, so that           *)
(* is_available() is true afterwards.  The libraries are taken to work for *)
(* OpenAI: the client can be imported and built.                           *)
(***************************************************************************)
Constructed == pc # "new"

\* the constructor went for Gemini and no GenerativeModel could be built
GeminiInitFailed ==
    /\ KeyValid(analyzer.api_key)
    /\ (~env.genai \/ (~env.primary /\ ~env.fallback))

C23_FallsBackToOpenaiAtConstruction ==
    (Constructed /\ GeminiInitFailed
       /\ KeyValid(config.openai_api_key) /\ env.openai = "ok")
        => (~IsNone(analyzer.openai_client) /\ is_available(analyzer))

(***************************************************************************)
(* C24 In _call_api_with_retry, when every Gemini attempt of the call has  *)
(* failed and a valid OpenAI-compatible API key is configured, with or     *)
(* without a base URL, the OpenAI-compatible API is attempted before the   *)
(* call raises.  The call is one that went to Gemini first, with at least  *)
(* one attempt allowed, and the OpenAI client can be built.                *)
(***************************************************************************)
InCall == pc = "calling"
CallRaised == InCall /\ call.phase = "raised"
CallReturned == InCall /\ call.phase = "returned"

C24_OpenaiAttemptedBeforeRaise ==
    (CallRaised /\ ~call.entered_with_openai
       /\ config.gemini_max_retries > 0
       /\ KeyValid(config.openai_api_key) /\ env.openai = "ok")
        => call.openai_requests >= 1

(***************************************************************************)
(* C25 Whenever a call of _call_api_with_retry switches to the fallback    *)
(* Gemini model after rate-limit failures, at least one further request is *)
(* made with the fallback model in the same call before the call falls     *)
(* through to OpenAI or raises.                                            *)
(***************************************************************************)
C25_FallbackModelIsTried ==
    (InCall /\ call.phase \in {"exhausted", "openai", "raised"} /\ call.switches > 0)
        => call.requests_after_switch >= 1

(***************************************************************************)
(* C26 Every call of _call_api_with_retry terminates, returning a          *)
(* non-empty response text or raising: it issues at most max_retries       *)
(* Gemini requests followed by at most max_retries OpenAI requests,        *)
(* switches to the fallback Gemini model at most once, and no delay before *)
(* a retry exceeds 60 seconds.                                             *)
(***************************************************************************)
C26_WithinBounds ==
    InCall =>
        /\ call.gemini_requests <= Max2(config.gemini_max_retries, 0)
        /\ call.openai_requests <= Max2(config.gemini_max_retries, 0)
        /\ ~call.gemini_after_openai
        /\ call.switches <= 1
        /\ call.max_delay <= 60
        /\ (call.phase = "returned" =>
               ~IsNone(call.response) /\ Val(call.response).kind # "empty")
        /\ (call.phase = "raised" => ~IsNone(call.error))

CallEnded == CallReturned \/ CallRaised

C26_TerminatesWithinBounds == [](C26_WithinBounds) /\ (InCall ~> CallEnded)

\* every attempt on both APIs was used, after a switch, and the cap was applied
C26_Witness ==
    /\ CallRaised
    /\ config.gemini_max_retries = 3 /\ config.gemini_retry_delay = 40
    /\ call.gemini_requests = 3 /\ call.openai_requests = 3
    /\ call.switches = 1
    /\ call.max_delay = 60

(***************************************************************************)
(* C27 GeminiAnalyzer.analyze never raises: when no API is available, or   *)
(* when the API call or the parsing of the response fails, it returns an   *)
(* AnalysisResult with success = False, sentiment_score 50 and an error    *)
(* message; batch_analyze therefore returns one result per context, in     *)
(* input order.                                                            *)
(***************************************************************************)
FailedAnalysis(r) ==
    r.parsed \in {"unavailable", "call_failed", "json_decode_error", "field_error"}

C27_AnalyzeNeverRaises ==
    Constructed =>
        /\ pc # "raised"
        /\ \A k \in 1..Len(batch.results) :
               FailedAnalysis(batch.results[k]) =>
                   /\ ~batch.results[k].success
                   /\ batch.results[k].sentiment_score = 50
                   /\ ~IsNone(batch.results[k].error_message)
        /\ (pc = "returned" =>
               /\ Len(batch.results) = Len(batch.contexts)
               /\ \A k \in 1..Len(batch.contexts) :
                      batch.results[k].code = batch.contexts[k].code)

(***************************************************************************)
(* C28 In every state of a GeminiAnalyzer the OpenAI client is set if and  *)
(* only if _use_openai is true, and once _use_openai is true, set by the   *)
(* constructor or by the lazy initialisation after Gemini failures, no     *)
(* later call of _call_api_with_retry issues a Gemini request.             *)
(***************************************************************************)
C28_ClientIffUseOpenai ==
    Constructed =>
        /\ ~IsNone(analyzer.openai_client) <=> analyzer.use_openai
        /\ (InCall /\ (call.entered_with_openai \/ call.openai_requests > 0)) =>
               /\ analyzer.use_openai
               /\ ~call.gemini_after_openai
               /\ (call.entered_with_openai => call.gemini_requests = 0)

\* the second analysis of an analyzer built with a Gemini model, whose first
\* analysis initialised OpenAI after Gemini had failed
C28_Witness ==
    /\ InCall
    /\ batch.next = 2
    /\ analyzer.model # "None"
    /\ call.entered_with_openai
    /\ call.openai_requests = 1
    /\ call.gemini_requests = 0

=============================================================================
